---- MODULE Spec2Model ----
(***************************************************************************)
(* bytestream: bounds-checked, endianness-aware Reader / Writer cursors    *)
(* over a caller-owned byte region (include/bytestream/*.hpp).             *)
(*                                                                         *)
(* std::size_t is modelled as the integers modulo SizeMod = 2^SizeBits, so *)
(* that the unsigned wrap-around of `position_ + bytes` is part of the     *)
(* model.  An arithmetic value is a sequence of bytes indexed by           *)
(* significance: v[1] is the least significant byte, v[Len(v)] the most    *)
(* significant one.  Signed and floating-point values are their bit        *)
(* patterns (two's complement, IEEE), which is what static_cast to the     *)
(* unsigned type of the same width and memcpy preserve.                    *)
(***************************************************************************)
EXTENDS Integers, Sequences, FiniteSets, TLC

\* ------------------------------------------------------------------ bounds
\* width of std::size_t in bits (the real one is 32 or 64)
SizeBits == 5
\* largest region the cursors of Spec wrap
MaxSize == 3
\* the largest element count of an array read or written
MaxCount == 2

SizeMod == 2 ^ SizeBits
SIZE_MAX == SizeMod - 1
Byte == 0 .. 255

\* ------------------------------------------------------- bit-level helpers
RECURSIVE BitAnd(_, _)
\* a & b on naturals
BitAnd(a, b) ==
    IF a = 0 \/ b = 0 THEN 0
    ELSE (a % 2) * (b % 2) + 2 * BitAnd(a \div 2, b \div 2)

RECURSIVE BitOr(_, _)
\* a | b on naturals
BitOr(a, b) ==
    IF a = 0 THEN b
    ELSE IF b = 0 THEN a
    ELSE (IF a % 2 = 1 \/ b % 2 = 1 THEN 1 ELSE 0) + 2 * BitOr(a \div 2, b \div 2)

\* ~a on a std::size_t
SizeNot(a) == SIZE_MAX - a

\* v >> (8 * k) on an unsigned value of Len(v) bytes
Shr(v, k) == [i \in 1 .. Len(v) |-> IF i + k <= Len(v) THEN v[i + k] ELSE 0]
\* v << (8 * k), truncated to the Len(v) bytes of the operand's type
Shl(v, k) == [i \in 1 .. Len(v) |-> IF i - k >= 1 THEN v[i - k] ELSE 0]
\* v & m and v | m on values of equal width
And(v, m) == [i \in 1 .. Len(v) |-> BitAnd(v[i], m[i])]
Or(v, m) == [i \in 1 .. Len(v) |-> BitOr(v[i], m[i])]
\* a hexadecimal literal written most significant byte first
Hex(bytes) == [i \in 1 .. Len(bytes) |-> bytes[Len(bytes) + 1 - i]]
\* integral promotion / conversion of an unsigned value to n bytes
Widen(v, n) == [i \in 1 .. n |-> IF i <= Len(v) THEN v[i] ELSE 0]
Narrow(v, n) == [i \in 1 .. n |-> v[i]]

\* ------------------------------------------------------------ type traits
IntegralTypes == {"u8", "i8", "u16", "i16", "u32", "i32", "u64", "i64"}
FloatingTypes == {"f32", "f64"}
ArithmeticTypes == IntegralTypes \cup FloatingTypes
\* long double where it takes 16 bytes: arithmetic and floating as well, kept
\* apart from the fixed-width types above
WideTypes == {"f128"}

sizeof(T) ==
    CASE T \in {"u8", "i8"} -> 1
      [] T \in {"u16", "i16"} -> 2
      [] T \in {"u32", "i32", "f32"} -> 4
      [] T \in {"u64", "i64", "f64"} -> 8
      [] T \in WideTypes -> 16

is_integral(T) == T \in IntegralTypes
is_floating(T) == T \in FloatingTypes \cup WideTypes

\* ------------------------------------------------- byteswap (config.hpp)
\* The portable (#else) branch of byteswap_int; the compiler-intrinsic
\* branches (__builtin_bswapNN, _byteswap_*) are byte reversal by definition.
\* faulty variant (sensitivity of C9): wrong shift distances
byteswap_int_wrong(T, value) ==
    IF sizeof(T) = 4
    THEN LET v == value
         IN  Or(Or(Shr(And(v, Hex(<<255, 0, 0, 0>>)), 3),
                   Shr(And(v, Hex(<<0, 255, 0, 0>>)), 1)),
                Or(Shl(And(v, Hex(<<0, 0, 255, 0>>)), 1),
                   Shl(And(v, Hex(<<0, 0, 0, 255>>)), 1)))
    ELSE IF sizeof(T) = 2
    THEN Narrow(Or(Shr(Widen(value, 4), 1), Widen(value, 4)), 2)
    ELSE IF sizeof(T) = 8
    THEN Or(Shr(value, 7), Shl(value, 7))
    ELSE value

byteswap_int(T, value) ==
    IF sizeof(T) = 2
    THEN \* v = static_cast<uint16_t>((v >> 8) | (v << 8)), computed in int
         LET v == Widen(value, 4)
         IN  Narrow(Or(Shr(v, 1), Shl(v, 1)), 2)
    ELSE IF sizeof(T) = 4
    THEN LET v == value
         IN  Or(Or(Shr(And(v, Hex(<<255, 0, 0, 0>>)), 3),
                   Shr(And(v, Hex(<<0, 255, 0, 0>>)), 1)),
                Or(Shl(And(v, Hex(<<0, 0, 255, 0>>)), 1),
                   Shl(And(v, Hex(<<0, 0, 0, 255>>)), 3)))
    ELSE IF sizeof(T) = 8
    THEN LET v == value
         IN  Or(Or(Or(Shr(And(v, Hex(<<255, 0, 0, 0, 0, 0, 0, 0>>)), 7),
                      Shr(And(v, Hex(<<0, 255, 0, 0, 0, 0, 0, 0>>)), 5)),
                   Or(Shr(And(v, Hex(<<0, 0, 255, 0, 0, 0, 0, 0>>)), 3),
                      Shr(And(v, Hex(<<0, 0, 0, 255, 0, 0, 0, 0>>)), 1))),
                Or(Or(Shl(And(v, Hex(<<0, 0, 0, 0, 255, 0, 0, 0>>)), 1),
                      Shl(And(v, Hex(<<0, 0, 0, 0, 0, 255, 0, 0>>)), 3)),
                   Or(Shl(And(v, Hex(<<0, 0, 0, 0, 0, 0, 255, 0>>)), 5),
                      Shl(And(v, Hex(<<0, 0, 0, 0, 0, 0, 0, 255>>)), 7))))
    ELSE value

byteswap(T, value) ==
    IF is_integral(T) THEN byteswap_int(T, value)
    ELSE IF is_floating(T)
    THEN IF sizeof(T) = 4 THEN byteswap_int("u32", value)
         ELSE IF sizeof(T) = 8 THEN byteswap_int("u64", value)
         ELSE value
    ELSE value

\* ------------------------------------- byteswap (second config.hpp variant)
\* faulty variant (sensitivity of C10): the low byte is shifted out
bswap16_wrong(v) == Narrow(Or(Shr(Widen(v, 4), 1), Shl(Widen(v, 4), 2)), 2)

bswap16(v) ==
    \* static_cast<uint16_t>((v >> 8) | (v << 8)), computed in int
    Narrow(Or(Shr(Widen(v, 4), 1), Shl(Widen(v, 4), 1)), 2)

bswap32(v) ==
    Or(Or(Shr(v, 3),
          Shr(And(v, Hex(<<0, 255, 0, 0>>)), 1)),
       Or(Shl(And(v, Hex(<<0, 0, 255, 0>>)), 1),
          Shl(v, 3)))

bswap64(v) ==
    Or(Or(Or(Shr(v, 7),
             Shr(And(v, Hex(<<0, 255, 0, 0, 0, 0, 0, 0>>)), 5)),
          Or(Shr(And(v, Hex(<<0, 0, 255, 0, 0, 0, 0, 0>>)), 3),
             Shr(And(v, Hex(<<0, 0, 0, 255, 0, 0, 0, 0>>)), 1))),
       Or(Or(Shl(And(v, Hex(<<0, 0, 0, 0, 255, 0, 0, 0>>)), 1),
             Shl(And(v, Hex(<<0, 0, 0, 0, 0, 255, 0, 0>>)), 3)),
          Or(Shl(And(v, Hex(<<0, 0, 0, 0, 0, 0, 255, 0>>)), 5),
             Shl(v, 7))))

\* template byteswap selecting by std::is_same on the fixed-width types
byteswap_v2(T, v) ==
    IF T \in {"u16", "i16"} THEN bswap16(v)
    ELSE IF T \in {"u32", "i32"} THEN bswap32(v)
    ELSE IF T \in {"u64", "i64"} THEN bswap64(v)
    ELSE IF is_floating(T)
    THEN IF sizeof(T) = 4 THEN bswap32(v) ELSE bswap64(v)
    ELSE v

\* ------------------------------------- byteswap (third config.hpp variant)
\* integral overload: sizeof-driven, portable branch
byteswap_integral(T, value) ==
    IF sizeof(T) = 1 THEN value
    ELSE IF sizeof(T) = 2
    THEN LET v == Widen(value, 4)
         IN  Narrow(Or(Shr(v, 1), Shl(v, 1)), 2)
    ELSE IF sizeof(T) = 4
    THEN LET v == value
         IN  Or(Or(Shr(And(v, Hex(<<255, 0, 0, 0>>)), 3),
                   Shr(And(v, Hex(<<0, 255, 0, 0>>)), 1)),
                Or(Shl(And(v, Hex(<<0, 0, 255, 0>>)), 1),
                   Shl(And(v, Hex(<<0, 0, 0, 255>>)), 3)))
    ELSE IF sizeof(T) = 8
    THEN LET v == value
         IN  Or(Or(Or(Shr(And(v, Hex(<<255, 0, 0, 0, 0, 0, 0, 0>>)), 7),
                      Shr(And(v, Hex(<<0, 255, 0, 0, 0, 0, 0, 0>>)), 5)),
                   Or(Shr(And(v, Hex(<<0, 0, 255, 0, 0, 0, 0, 0>>)), 3),
                      Shr(And(v, Hex(<<0, 0, 0, 255, 0, 0, 0, 0>>)), 1))),
                Or(Or(Shl(And(v, Hex(<<0, 0, 0, 0, 255, 0, 0, 0>>)), 1),
                      Shl(And(v, Hex(<<0, 0, 0, 0, 0, 255, 0, 0>>)), 3)),
                   Or(Shl(And(v, Hex(<<0, 0, 0, 0, 0, 0, 255, 0>>)), 5),
                      Shl(And(v, Hex(<<0, 0, 0, 0, 0, 0, 0, 255>>)), 7))))
    ELSE value

\* floating overload: memcpy to the unsigned type of the same width, swap, memcpy back
byteswap_floating(T, value) ==
    IF sizeof(T) = 4 THEN byteswap_integral("u32", value)
    ELSE IF sizeof(T) = 8 THEN byteswap_integral("u64", value)
    ELSE value

\* overload resolution by enable_if_integral_t / enable_if_floating_t
byteswap_v1(T, value) ==
    IF is_integral(T) THEN byteswap_integral(T, value) ELSE byteswap_floating(T, value)

\* ------------------------------------------------------------------ state
VARIABLES
    little,   \* the host's native byte order (is_little_endian(), fixed per build)
    mem,      \* the caller-owned region; region byte i is mem[i + 1]
    rpos,     \* Reader::position_
    wpos,     \* Writer::pos_
    last,     \* the last call: cursor, operation, arguments, outcome
    wrote,    \* the last value written by write / write_le / write_be
    sw,       \* input and running result of the byteswap under study
    sub,      \* the cursor returned by the last subview / as_reader / reader call
    stream_pos, \* Stream::pos_
    race      \* two threads inside calls on the one Reader: where each is, its locals

vars == <<little, mem, rpos, wpos, last, wrote, sw, sub, stream_pos, race>>

is_little_endian == little
is_big_endian == ~is_little_endian

\* memcpy between an object of arithmetic type and the region: the object
\* representation lists the bytes lowest address first
ToMem(v) == IF is_little_endian THEN v ELSE Hex(v)
FromMem(bytes) == IF is_little_endian THEN bytes ELSE Hex(bytes)

\* faulty variant (sensitivity of C28): the copy runs from the caller's
\* value-initialised object into the region
memcpy_source_reversed(m, lo, hi) ==
    [i \in 1 .. Len(m) |-> IF lo < i /\ i <= hi THEN 0 ELSE m[i]]

\* the region after std::memcpy(dst, data_ + position_, n) has read its bytes
\* [lo, hi): data_ points to const bytes and the copy leaves its source alone
memcpy_source(m, lo, hi) == m

\* the n bytes at [p, p + n); a byte beyond the region is whatever lies there
Fetch(m, p, n, oob) == [i \in 1 .. n |-> IF p + i <= Len(m) THEN m[p + i] ELSE oob]
\* the region after copying src to [p, p + Len(src))
Store(m, p, src) ==
    [i \in 1 .. Len(m) |-> IF i > p /\ i <= p + Len(src) THEN src[i - p] ELSE m[i]]

\* outcome of a Reader call: the exception thrown ("none": returned normally),
\* the position afterwards, the value returned, the bytes [lo, hi) it touched
RThrow(kind, position) ==
    [err |-> kind, pos |-> position, ret |-> <<>>, lo |-> position, hi |-> position]
ROk(position, ret, lo, hi) ==
    [err |-> "none", pos |-> position, ret |-> ret, lo |-> lo, hi |-> hi]

\* ----------------------------------------------------------------- Reader
remaining(m, position) == (Len(m) - position + SizeMod) % SizeMod
exhausted(m, position) == position >= Len(m)

\* TRUE when check_bounds throws UnderflowException; position_ + bytes is
\* computed in std::size_t
check_bounds(m, position, bytes) == (position + bytes) % SizeMod > Len(m)

\* faulty variant (sensitivity of C1): seek without the range test
Reader_seek_lax(m, position, pos) == ROk(pos, <<>>, position, position)

Reader_seek(m, position, pos) ==
    IF pos > Len(m) THEN RThrow("OutOfRange", position)
    ELSE ROk(pos, <<>>, position, position)

Reader_rewind(m, position) == ROk(0, <<>>, position, position)

Reader_skip(m, position, bytes) ==
    IF check_bounds(m, position, bytes) THEN RThrow("Underflow", position)
    ELSE ROk((position + bytes) % SizeMod, <<>>, position, position)

\* faulty variant (sensitivity of C14): rounds down instead of up
Reader_align_down(m, position, alignment) ==
    LET aligned == BitAnd(position, SizeNot(alignment - 1))
    IN  Reader_seek(m, position, aligned)

Reader_align(m, position, alignment) ==
    LET aligned == BitAnd((position + alignment - 1) % SizeMod, SizeNot(alignment - 1))
    IN  Reader_seek(m, position, aligned)

is_aligned(position, alignment) == position % alignment = 0

\* subview(offset, length = size_t(-1)): the cursor Reader(data_ + offset,
\* actual); offset + actual is computed in std::size_t
Reader_subview(m, offset, length) ==
    IF offset > Len(m) THEN [err |-> "OutOfRange", data |-> 0, size |-> 0]
    ELSE LET actual == IF length = SIZE_MAX THEN Len(m) - offset ELSE length
         IN  IF (offset + actual) % SizeMod > Len(m)
             THEN [err |-> "OutOfRange", data |-> 0, size |-> 0]
             ELSE [err |-> "none", data |-> offset, size |-> actual]

Reader_read(m, position, T, oob) ==
    IF check_bounds(m, position, sizeof(T)) THEN RThrow("Underflow", position)
    ELSE ROk((position + sizeof(T)) % SizeMod,
             FromMem(Fetch(m, position, sizeof(T), oob)),
             position, position + sizeof(T))

Reader_read_le(m, position, T, oob) ==
    LET r == Reader_read(m, position, T, oob)
    IN  IF r.err # "none" THEN r
        ELSE IF sizeof(T) > 1 /\ ~is_little_endian
        THEN [r EXCEPT !.ret = byteswap_v1(T, r.ret)]
        ELSE r

\* faulty variant (sensitivity of C7): read_be without the swap
Reader_read_be_noswap(m, position, T, oob) == Reader_read(m, position, T, oob)

Reader_read_be(m, position, T, oob) ==
    LET r == Reader_read(m, position, T, oob)
    IN  IF r.err # "none" THEN r
        ELSE IF sizeof(T) > 1 /\ is_little_endian
        THEN [r EXCEPT !.ret = byteswap_v1(T, r.ret)]
        ELSE r

\* faulty variant (sensitivity of C11): the position is not restored
Reader_peek_norestore(m, position, T, oob) == Reader_read(m, position, T, oob)

\* saved = position_; v = read<T>(); position_ = saved  (a throw skips the restore)
Reader_peek(m, position, T, oob) ==
    LET r == Reader_read(m, position, T, oob)
    IN  IF r.err # "none" THEN r ELSE [r EXCEPT !.pos = position]

\* saved = position_; v = read_le<T>(); position_ = saved
Reader_peek_le(m, position, T, oob) ==
    LET r == Reader_read_le(m, position, T, oob)
    IN  IF r.err # "none" THEN r ELSE [r EXCEPT !.pos = position]

\* saved = position_; v = read_be<T>(); position_ = saved
Reader_peek_be(m, position, T, oob) ==
    LET r == Reader_read_be(m, position, T, oob)
    IN  IF r.err # "none" THEN r ELSE [r EXCEPT !.pos = position]

Reader_read_bytes(m, position, count, oob) ==
    IF check_bounds(m, position, count) THEN RThrow("Underflow", position)
    ELSE ROk((position + count) % SizeMod, Fetch(m, position, count, oob),
             position, position + count)

\* read_array(span<T> dest): dest.size_bytes() bytes copied, element k from
\* the sizeof(T) bytes at position + k * sizeof(T)
Reader_read_array(m, position, T, count) ==
    LET size_bytes == (count * sizeof(T)) % SizeMod
    IN  IF check_bounds(m, position, size_bytes) THEN RThrow("Underflow", position)
        ELSE ROk((position + size_bytes) % SizeMod,
                 [k \in 1 .. count |->
                     FromMem(Fetch(m, position + (k - 1) * sizeof(T), sizeof(T), 0))],
                 position, position + size_bytes)

\* std::string::max_size(): no string of more than half the address space
string_max_size == SizeMod \div 2 - 1

Reader_read_string(m, position, length, oob) ==
    IF check_bounds(m, position, length) THEN RThrow("Underflow", position)
    ELSE IF length > string_max_size THEN RThrow("length_error", position)
    ELSE ROk((position + length) % SizeMod, Fetch(m, position, length, oob),
             position, position + length)

\* uint32_t -> std::size_t for a length that std::size_t holds: the model's
\* std::size_t has fewer than 8 bits, so such a length is its lowest byte
FitsSize(v) == v[1] <= SIZE_MAX /\ \A i \in 2 .. Len(v) : v[i] = 0
size_from_u32(v) == v[1]
\* static_cast<std::uint32_t>(s.size())
u32_from_size(n) == [i \in 1 .. 4 |-> IF i = 1 THEN n ELSE 0]

\* len = read_le<uint32_t>(); return read_string(len): the second call starts
\* where the first one ended
Reader_read_sized_string_le(m, position, oob) ==
    LET r == Reader_read_le(m, position, "u32", oob)
    IN  IF r.err # "none" THEN r
        ELSE LET q == Reader_read_string(m, r.pos, size_from_u32(r.ret), oob)
             IN  [q EXCEPT !.lo = position]

Reader_read_sized_string_be(m, position, oob) ==
    LET r == Reader_read_be(m, position, "u32", oob)
    IN  IF r.err # "none" THEN r
        ELSE LET q == Reader_read_string(m, r.pos, size_from_u32(r.ret), oob)
             IN  [q EXCEPT !.lo = position]

\* the view is built without touching memory; [lo, hi) is the range it aliases
Reader_view_string(m, position, length, oob) ==
    IF check_bounds(m, position, length) THEN RThrow("Underflow", position)
    ELSE ROk((position + length) % SizeMod, Fetch(m, position, length, oob),
             position, position + length)

\* faulty variant (sensitivity of C17): the terminator is not consumed
Reader_read_cstring_keep(m, position) ==
    LET zeros == {i \in position .. Len(m) - 1 : m[i + 1] = 0}
    IN  IF zeros = {} THEN RThrow("Underflow", position)
        ELSE LET z == CHOOSE i \in zeros : \A j \in zeros : i <= j
                 len == z - position
             IN  ROk((position + len) % SizeMod, Fetch(m, position, len, 0),
                     position, z + 1)

\* memchr(start, 0, remaining()); res(start, len); position_ += len + 1
Reader_read_cstring(m, position) ==
    LET zeros == {i \in position .. Len(m) - 1 : m[i + 1] = 0}
    IN  IF zeros = {} THEN RThrow("Underflow", position)
        ELSE LET z == CHOOSE i \in zeros : \A j \in zeros : i <= j
                 len == z - position
             IN  ROk((position + len + 1) % SizeMod, Fetch(m, position, len, 0),
                     position, z + 1)

\* ----------------------------------------------------------------- Writer
\* outcome of a Writer call: the exception thrown, the position and the
\* region afterwards, the bytes [lo, hi) it wrote
WThrow(kind, m, pos) ==
    [err |-> kind, pos |-> pos, mem |-> m, ret |-> <<>>, lo |-> pos, hi |-> pos]
WOk(m, pos, lo, hi) ==
    [err |-> "none", pos |-> pos, mem |-> m, ret |-> <<>>, lo |-> lo, hi |-> hi]

\* faulty variant (sensitivity of C6): seek(size) refused
Writer_seek_strict(m, pos, p) ==
    IF p >= Len(m) THEN WThrow("OutOfRange", m, pos) ELSE WOk(m, p, pos, pos)

Writer_seek(m, pos, p) ==
    IF p > Len(m) THEN WThrow("OutOfRange", m, pos) ELSE WOk(m, p, pos, pos)

\* TRUE when ensure throws OverflowException
ensure(m, pos, n) == n > (Len(m) - pos + SizeMod) % SizeMod

\* faulty variant (sensitivity of C3): copies what fits before throwing
Writer_write_bytes_partial(m, pos, src) ==
    IF ensure(m, pos, Len(src))
    THEN [WThrow("Overflow", Store(m, pos, src), pos) EXCEPT !.hi = Len(m)]
    ELSE WOk(Store(m, pos, src), (pos + Len(src)) % SizeMod, pos, pos + Len(src))

Writer_write_bytes(m, pos, src) ==
    IF ensure(m, pos, Len(src)) THEN WThrow("Overflow", m, pos)
    ELSE WOk(Store(m, pos, src), (pos + Len(src)) % SizeMod, pos, pos + Len(src))

\* write(const T& v) { write_bytes(&v, sizeof(T)); }
Writer_write(m, pos, T, v) == Writer_write_bytes(m, pos, ToMem(v))

\* write_array(span<const T> arr) { write_bytes(arr.data(), arr.size() * sizeof(T)); }
Writer_write_array(m, pos, T, arr) ==
    Writer_write_bytes(m, pos,
        [i \in 1 .. Len(arr) * sizeof(T) |->
            ToMem(arr[((i - 1) \div sizeof(T)) + 1])[((i - 1) % sizeof(T)) + 1]])

\* faulty variant (sensitivity of C8): write_le without the swap
Writer_write_le_noswap(m, pos, T, v) == Writer_write(m, pos, T, v)

Writer_write_le(m, pos, T, v) ==
    Writer_write(m, pos, T, IF is_big_endian THEN byteswap_v2(T, v) ELSE v)

Writer_write_be(m, pos, T, v) ==
    Writer_write(m, pos, T, IF is_little_endian THEN byteswap_v2(T, v) ELSE v)

Writer_write_string(m, pos, s) == Writer_write_bytes(m, pos, s)

\* faulty variant (sensitivity of C19): the prefix counts a terminator
Writer_write_sized_string_le_plus1(m, pos, s) ==
    LET r == Writer_write_le(m, pos, "u32", u32_from_size(Len(s) + 1))
    IN  IF r.err # "none" THEN r
        ELSE LET q == Writer_write_string(r.mem, r.pos, s)
             IN  [q EXCEPT !.lo = pos]

\* write_le<uint32_t>(s.size()); write_string(s)
Writer_write_sized_string_le(m, pos, s) ==
    LET r == Writer_write_le(m, pos, "u32", u32_from_size(Len(s)))
    IN  IF r.err # "none" THEN r
        ELSE LET q == Writer_write_string(r.mem, r.pos, s)
             IN  [q EXCEPT !.lo = pos]

\* write_be<uint32_t>(s.size()); write_string(s)
Writer_write_sized_string_be(m, pos, s) ==
    LET r == Writer_write_be(m, pos, "u32", u32_from_size(Len(s)))
    IN  IF r.err # "none" THEN r
        ELSE LET q == Writer_write_string(r.mem, r.pos, s)
             IN  [q EXCEPT !.lo = pos]

\* faulty variant (sensitivity of C18): no terminator is written
Writer_write_cstring_noterm(m, pos, s) == Writer_write_string(m, pos, s)

\* write_string(s); write(zero): the second call starts where the first ended
Writer_write_cstring(m, pos, s) ==
    LET r == Writer_write_string(m, pos, s)
    IN  IF r.err # "none" THEN r
        ELSE LET z == Writer_write(r.mem, r.pos, "u8", <<0>>)
             IN  [z EXCEPT !.lo = pos]

\* faulty variant (sensitivity of C35): memset of one byte too many
Writer_fill_bytes_wide(m, pos, value, count) ==
    IF ensure(m, pos, count) THEN WThrow("Overflow", m, pos)
    ELSE WOk(Store(m, pos, [i \in 1 .. count + 1 |-> value]),
             (pos + count) % SizeMod, pos, pos + count)

Writer_fill_bytes(m, pos, value, count) ==
    IF ensure(m, pos, count) THEN WThrow("Overflow", m, pos)
    ELSE WOk(Store(m, pos, [i \in 1 .. count |-> value]),
             (pos + count) % SizeMod, pos, pos + count)

Writer_zero_fill(m, pos, count) == Writer_fill_bytes(m, pos, 0, count)

align_up(p, a) ==
    IF a = 0 THEN p
    ELSE LET r == p % a
         IN  IF r # 0 THEN (p + (a - r)) % SizeMod ELSE p

\* faulty variant (sensitivity of C16): the padding is always zero
Writer_align_zero(m, pos, alignment, fill) ==
    LET next == align_up(pos, alignment)
        pad == (next - pos + SizeMod) % SizeMod
    IN  IF pad # 0 THEN Writer_fill_bytes(m, pos, 0, pad) ELSE WOk(m, pos, pos, pos)

Writer_align(m, pos, alignment, fill) ==
    LET next == align_up(pos, alignment)
        pad == (next - pos + SizeMod) % SizeMod
    IN  IF pad # 0 THEN Writer_fill_bytes(m, pos, fill, pad) ELSE WOk(m, pos, pos, pos)

\* Writer::subview, Writer::rewind and Writer::skip exist only in the Writer
\* with the check(n) bounds test (pos_ + n > size_, computed in std::size_t)
Writer_subview(m, offset, length) ==
    IF offset > Len(m) THEN [err |-> "OutOfRange", data |-> 0, size |-> 0]
    ELSE LET len == IF length = SIZE_MAX THEN Len(m) - offset ELSE length
         IN  IF (offset + len) % SizeMod > Len(m)
             THEN [err |-> "OutOfRange", data |-> 0, size |-> 0]
             ELSE [err |-> "none", data |-> offset, size |-> len]

Writer_rewind(m, pos) == WOk(m, 0, pos, pos)

check(m, pos, n) == (pos + n) % SizeMod > Len(m)

Writer_skip(m, pos, n) ==
    IF check(m, pos, n) THEN WThrow("Overflow", m, pos)
    ELSE WOk(m, (pos + n) % SizeMod, pos, pos)

\* ------------------------------------------------------- inputs of Spec
\* The counts, lengths and positions a caller passes in a std::size_t: every
\* value up to one past the largest region, one mid-range value, and the
\* values next to SIZE_MAX, for which position + count wraps around
Counts == (0 .. MaxSize + 1) \cup {SizeMod \div 2} \cup {SIZE_MAX - 1, SIZE_MAX}
Alignments == {1, 2, 4, 8}
DataBytes == {0, 65}
OobBytes == {0, 255}
ArrayTypes == {"u8", "u16"}
SpecTypes == {"u8", "u16", "u32", "u64"}
SpecValues(T) == {[i \in 1 .. sizeof(T) |-> 65], [i \in 1 .. sizeof(T) |-> IF i = 1 THEN 65 ELSE 0]}
Strings == {<<>>, <<65>>, <<65, 65>>, <<65, 0>>}

\* no thread is inside a call
NoRace ==
    [th |-> <<>>, overlap |-> FALSE, peek_moved |-> FALSE, reads |-> 0,
     oob |-> FALSE, crash |-> FALSE]

NoCall ==
    [cur |-> "-", op |-> "init", T |-> "-", n |-> 0, pre |-> 0,
     err |-> "none", ret |-> <<>>, lo |-> 0, hi |-> 0]
Call(cur, op, T, n, pre, r) ==
    [cur |-> cur, op |-> op, T |-> T, n |-> n, pre |-> pre,
     err |-> r.err, ret |-> r.ret, lo |-> r.lo, hi |-> r.hi]

size == Len(mem)
\* the process is still running (an out-of-bounds memcpy may have killed it,
\* an exception leaving a noexcept function calls std::terminate)
Running == last.err \notin {"crash", "terminate"}

\* A Reader call with outcome r.  A call that read beyond the region has
\* undefined behaviour: it returns whatever lay there, or the process dies.
ReaderCall(op, T, n, r) ==
    /\ Running
    /\ \/ /\ rpos' = r.pos
          /\ mem' = IF op = "view_string" THEN mem ELSE memcpy_source(mem, r.lo, r.hi)
          /\ last' = Call("R", op, T, n, rpos, r)
       \/ /\ r.err = "none" /\ r.hi > size /\ op # "view_string"
          /\ rpos' = rpos
          /\ mem' = mem
          /\ last' = Call("R", op, T, n, rpos, [r EXCEPT !.err = "crash", !.ret = <<>>])
    /\ UNCHANGED <<little, wpos, wrote, sw, sub, stream_pos, race>>

R_seek(p) == ReaderCall("seek", "-", p, Reader_seek(mem, rpos, p))
R_rewind == ReaderCall("rewind", "-", 0, Reader_rewind(mem, rpos))
R_skip(n) == ReaderCall("skip", "-", n, Reader_skip(mem, rpos, n))
R_align(a) == ReaderCall("align", "-", a, Reader_align(mem, rpos, a))
R_read(T) == \E oob \in OobBytes :
    ReaderCall("read", T, sizeof(T), Reader_read(mem, rpos, T, oob))
R_read_le(T) == \E oob \in OobBytes :
    ReaderCall("read_le", T, sizeof(T), Reader_read_le(mem, rpos, T, oob))
R_read_be(T) == \E oob \in OobBytes :
    ReaderCall("read_be", T, sizeof(T), Reader_read_be(mem, rpos, T, oob))
R_peek(T) == \E oob \in OobBytes :
    ReaderCall("peek", T, sizeof(T), Reader_peek(mem, rpos, T, oob))
R_peek_le(T) == \E oob \in OobBytes :
    ReaderCall("peek_le", T, sizeof(T), Reader_peek_le(mem, rpos, T, oob))
R_peek_be(T) == \E oob \in OobBytes :
    ReaderCall("peek_be", T, sizeof(T), Reader_peek_be(mem, rpos, T, oob))
R_read_bytes(n) == \E oob \in OobBytes :
    ReaderCall("read_bytes", "-", n, Reader_read_bytes(mem, rpos, n, oob))
R_read_string(n) == \E oob \in OobBytes :
    ReaderCall("read_string", "-", n, Reader_read_string(mem, rpos, n, oob))
R_view_string(n) == \E oob \in OobBytes :
    ReaderCall("view_string", "-", n, Reader_view_string(mem, rpos, n, oob))
R_read_array(T, count) ==
    ReaderCall("read_array", T, count * sizeof(T), Reader_read_array(mem, rpos, T, count))
R_read_cstring == ReaderCall("read_cstring", "-", 0, Reader_read_cstring(mem, rpos))

\* A Writer call with outcome r
WriterDo(op, T, n, r) ==
    /\ Running
    /\ wpos' = r.pos
    /\ mem' = r.mem
    /\ last' = Call("W", op, T, n, wpos, r)
    /\ UNCHANGED <<little, rpos, sw, sub, stream_pos, race>>

WriterCall(op, T, n, r) == WriterDo(op, T, n, r) /\ UNCHANGED wrote

W_seek(p) == WriterCall("seek", "-", p, Writer_seek(mem, wpos, p))
W_rewind == WriterCall("rewind", "-", 0, Writer_rewind(mem, wpos))
W_skip(n) == WriterCall("skip", "-", n, Writer_skip(mem, wpos, n))
\* the fill byte passed is kept in the record of the call (its ret field)
W_align(a, fill) ==
    WriterCall("align", "-", a, [Writer_align(mem, wpos, a, fill) EXCEPT !.ret = <<fill>>])
W_write(T, v) == WriterCall("write", T, sizeof(T), Writer_write(mem, wpos, T, v))
W_write_le(T, v) == WriterCall("write_le", T, sizeof(T), Writer_write_le(mem, wpos, T, v))
W_write_be(T, v) == WriterCall("write_be", T, sizeof(T), Writer_write_be(mem, wpos, T, v))
W_write_bytes(n, d) ==
    WriterCall("write_bytes", "-", n, Writer_write_bytes(mem, wpos, [i \in 1 .. n |-> d]))
W_write_array(T, arr) ==
    WriterCall("write_array", T, Len(arr) * sizeof(T), Writer_write_array(mem, wpos, T, arr))
W_write_string(s) ==
    WriterCall("write_string", "-", Len(s), Writer_write_string(mem, wpos, s))
W_write_cstring(s) ==
    WriterCall("write_cstring", "-", Len(s) + 1, Writer_write_cstring(mem, wpos, s))
W_fill_bytes(value, n) ==
    WriterCall("fill_bytes", "-", n, Writer_fill_bytes(mem, wpos, value, n))
W_zero_fill(n) == WriterCall("zero_fill", "-", n, Writer_zero_fill(mem, wpos, n))

\* no subview taken yet
NoSub ==
    [cur |-> "-", offset |-> 0, length |-> 0, err |-> "none",
     data |-> 0, size |-> 0, pos |-> 0]
NoSwap == [impl |-> "-", T |-> "-", v |-> <<>>, out |-> <<>>, n |-> 0]
NoWrite == [op |-> "-", T |-> "-", v |-> <<>>, at |-> 0, err |-> "none"]

\* a Reader and a Writer constructed over the same zero-initialised region
Init ==
    /\ little = TRUE
    /\ mem \in UNION {[1 .. n -> {0}] : n \in 0 .. MaxSize}
    /\ rpos = 0
    /\ wpos = 0
    /\ last = NoCall
    /\ wrote = NoWrite
    /\ sw = NoSwap
    /\ sub = NoSub
    /\ stream_pos = 0
    /\ race = NoRace

Next ==
    \/ \E p \in Counts : R_seek(p)
    \/ R_rewind
    \/ \E n \in Counts : R_skip(n)
    \/ \E a \in Alignments : R_align(a)
    \/ \E T \in SpecTypes : R_read(T)
    \/ \E T \in SpecTypes : R_peek(T)
    \/ \E n \in Counts : R_read_bytes(n)
    \/ \E n \in Counts : R_read_string(n)
    \/ \E n \in Counts : R_view_string(n)
    \/ R_read_cstring
    \/ \E T \in ArrayTypes : \E count \in 0 .. MaxCount : R_read_array(T, count)
    \/ \E T \in ArrayTypes : \E count \in 0 .. MaxCount :
          W_write_array(T, [k \in 1 .. count |-> [i \in 1 .. sizeof(T) |-> 65]])
    \/ \E p \in Counts : W_seek(p)
    \/ W_rewind
    \/ \E n \in Counts : W_skip(n)
    \/ \E a \in Alignments, fill \in DataBytes : W_align(a, fill)
    \/ \E T \in SpecTypes : \E v \in SpecValues(T) : W_write(T, v)
    \/ \E n \in Counts : W_write_bytes(n, 65)
    \/ \E s \in Strings : W_write_string(s)
    \/ \E s \in Strings : W_write_cstring(s)
    \/ \E n \in Counts, value \in DataBytes : W_fill_bytes(value, n)

Spec == Init /\ [][Next]_vars

\* ------------------------------------------------------------ SpecEndian
\* One value written with write / write_le / write_be and read back with
\* read / read_le / read_be, on a host of either byte order.

\* size of the region of SpecEndian
EndianSize == 9

Offsets == {0, 1}
\* offsets read from: those written at, and the last byte of the region,
\* where only a 1-byte value is left to read
ReadOffsets == Offsets \cup {EndianSize - 1}
ByteSamples == {0, 1, 18, 52, 127, 128, 171, 205, 255}
Units(w) == {[i \in 1 .. w |-> IF i = k THEN b ELSE 0] : k \in 1 .. w, b \in {1, 90, 128, 255}}
TestVectors(w) ==
    IF w = 4 THEN {Hex(<<18, 52, 86, 120>>)}
    ELSE {Hex(<<1, 35, 69, 103, 137, 171, 205, 239>>)}
\* the sampled values of type T (bit patterns): every combination of the
\* sample bytes for 1 and 2 bytes; for 4 and 8 bytes the values with one
\* non-zero byte, the values with one byte differing from 0xFF, and the
\* values of the unit tests (sign bit set and clear both occur)
Values(T) ==
    LET w == sizeof(T)
    IN  IF w <= 2 THEN [1 .. w -> ByteSamples]
        ELSE Units(w) \cup TestVectors(w)
             \cup {[i \in 1 .. w |-> IF i = k THEN b ELSE 255] : k \in 1 .. w, b \in {0, 127}}
             \cup {[i \in 1 .. w |-> 0], [i \in 1 .. w |-> 255]}

InitEndian ==
    /\ little \in BOOLEAN
    /\ mem = [i \in 1 .. EndianSize |-> 0]
    /\ rpos = 0
    /\ wpos = 0
    /\ last = NoCall
    /\ wrote = NoWrite
    /\ sw = NoSwap
    /\ sub = NoSub
    /\ stream_pos = 0
    /\ race = NoRace

Wrote(op, T, v, r) == [op |-> op, T |-> T, v |-> v, at |-> wpos, err |-> r.err]

E_W_seek(p) ==
    /\ last.op = "init"
    /\ WriterCall("seek", "-", p, Writer_seek(mem, wpos, p))
E_write(T, v) ==
    /\ wrote.op = "-"
    /\ WriterDo("write", T, sizeof(T), Writer_write(mem, wpos, T, v))
    /\ wrote' = Wrote("write", T, v, Writer_write(mem, wpos, T, v))
E_write_le(T, v) ==
    /\ wrote.op = "-"
    /\ WriterDo("write_le", T, sizeof(T), Writer_write_le(mem, wpos, T, v))
    /\ wrote' = Wrote("write_le", T, v, Writer_write_le(mem, wpos, T, v))
E_write_be(T, v) ==
    /\ wrote.op = "-"
    /\ WriterDo("write_be", T, sizeof(T), Writer_write_be(mem, wpos, T, v))
    /\ wrote' = Wrote("write_be", T, v, Writer_write_be(mem, wpos, T, v))
E_R_seek(p) ==
    /\ wrote.op # "-" /\ last.cur = "W"
    /\ R_seek(p)
E_peek ==
    /\ wrote.op # "-" /\ last.op \notin {"read", "read_le", "read_be"}
    /\ R_peek(wrote.T)
E_peek_le ==
    /\ wrote.op # "-" /\ last.op \notin {"read", "read_le", "read_be"}
    /\ R_peek_le(wrote.T)
E_peek_be ==
    /\ wrote.op # "-" /\ last.op \notin {"read", "read_le", "read_be"}
    /\ R_peek_be(wrote.T)
E_read ==
    /\ wrote.op # "-" /\ last.op \notin {"read", "read_le", "read_be"}
    /\ R_read(wrote.T)
E_read_le ==
    /\ wrote.op # "-" /\ last.op \notin {"read", "read_le", "read_be"}
    /\ R_read_le(wrote.T)
E_read_be ==
    /\ wrote.op # "-" /\ last.op \notin {"read", "read_le", "read_be"}
    /\ R_read_be(wrote.T)

NextEndian ==
    \/ \E p \in Offsets : E_W_seek(p)
    \/ wrote.op = "-" /\ \E T \in ArithmeticTypes : \E v \in Values(T) : E_write(T, v)
    \/ wrote.op = "-" /\ \E T \in ArithmeticTypes : \E v \in Values(T) : E_write_le(T, v)
    \/ wrote.op = "-" /\ \E T \in ArithmeticTypes : \E v \in Values(T) : E_write_be(T, v)
    \/ \E p \in ReadOffsets : E_R_seek(p)
    \/ E_peek
    \/ E_peek_le
    \/ E_peek_be
    \/ E_read
    \/ E_read_le
    \/ E_read_be

SpecEndian == InitEndian /\ [][NextEndian]_vars

\* -------------------------------------------------------------- SpecSwap
\* byteswap as a pure function: an input is drawn, one implementation is
\* applied to it repeatedly.

\* how often the swap is applied to one input
MaxSwaps == 2

SwapImpls == {"byteswap", "byteswap_v1", "byteswap_v2", "bswap"}

InitSwap ==
    /\ little = TRUE
    /\ mem = <<>>
    /\ rpos = 0
    /\ wpos = 0
    /\ last = NoCall
    /\ wrote = NoWrite
    /\ \E T \in ArithmeticTypes : \E v \in Values(T) :
          sw = [impl |-> "-", T |-> T, v |-> v, out |-> v, n |-> 0]
    /\ sub = NoSub
    /\ stream_pos = 0
    /\ race = NoRace

SwapStep(impl, out) ==
    /\ sw.n < MaxSwaps
    /\ sw.impl \in {"-", impl}
    /\ sw' = [sw EXCEPT !.impl = impl, !.out = out, !.n = sw.n + 1]
    /\ UNCHANGED <<little, mem, rpos, wpos, last, wrote, sub, stream_pos, race>>

S_byteswap == SwapStep("byteswap", byteswap(sw.T, sw.out))
S_byteswap_v1 == SwapStep("byteswap_v1", byteswap_v1(sw.T, sw.out))
S_byteswap_v2 == SwapStep("byteswap_v2", byteswap_v2(sw.T, sw.out))
\* bswap16 / bswap32 / bswap64 called directly on an unsigned value
S_bswap ==
    /\ sw.T \in {"u16", "u32", "u64"}
    /\ SwapStep("bswap", CASE sw.T = "u16" -> bswap16(sw.out)
                           [] sw.T = "u32" -> bswap32(sw.out)
                           [] sw.T = "u64" -> bswap64(sw.out))

NextSwap == S_byteswap \/ S_byteswap_v1 \/ S_byteswap_v2 \/ S_bswap

SpecSwap == InitSwap /\ [][NextSwap]_vars

\* -------------------------------------------------------------- SpecWide
\* byteswap and read_be instantiated for a 16-byte floating-point type: the
\* value is drawn, the region holds its bytes.
WideValues(T) == Units(sizeof(T))

InitWide ==
    /\ little = TRUE
    /\ \E T \in WideTypes : \E v \in WideValues(T) :
          /\ sw = [impl |-> "-", T |-> T, v |-> v, out |-> v, n |-> 0]
          /\ mem = v
    /\ rpos = 0
    /\ wpos = 0
    /\ last = NoCall
    /\ wrote = NoWrite
    /\ sub = NoSub
    /\ stream_pos = 0
    /\ race = NoRace

\* read_be<T>() of the value in the region
X_read_be ==
    /\ last.op = "init"
    /\ R_read_be(sw.T)

NextWide == S_byteswap \/ S_byteswap_v1 \/ X_read_be

SpecWide == InitWide /\ [][NextWide]_vars

\* --------------------------------------------------------------- SpecSub
\* A Reader over a region with buffer[i] = i, the cursors subview returns,
\* and calls on the parent and on the subview in any order.

\* size of the region of SpecSub
SubSize == 4
SubOffsets == 0 .. SubSize + 1
\* SIZE_MAX is the default argument: the length is omitted
SubLengths == (0 .. 2) \cup {SubSize, SIZE_MAX - 1, SIZE_MAX}
SubTypes == {"u8", "u16"}

InitSub ==
    /\ little = TRUE
    /\ mem = [i \in 1 .. SubSize |-> i - 1]
    /\ rpos = 0
    /\ wpos = 0
    /\ last = NoCall
    /\ wrote = NoWrite
    /\ sw = NoSwap
    /\ sub = NoSub
    /\ stream_pos = 0
    /\ race = NoRace

\* the bytes the subview cursor points at: size bytes from data_ + offset
SubRegion(oob) == Fetch(mem, sub.data, sub.size, oob)

\* subview(offset, length) called on the parent cursor cur
SubviewCall(cur, offset, length, r) ==
    /\ Running
    /\ sub' = [cur |-> cur, offset |-> offset, length |-> length, err |-> r.err,
               data |-> r.data, size |-> r.size, pos |-> 0]
    /\ last' = [NoCall EXCEPT !.cur = cur, !.op = "subview", !.n = offset,
                              !.pre = (IF cur = "R" THEN rpos ELSE wpos), !.err = r.err]
    /\ UNCHANGED <<little, mem, rpos, wpos, wrote, sw, stream_pos, race>>

P_subview(offset, length) ==
    SubviewCall("R", offset, length, Reader_subview(mem, offset, length))
PW_subview(offset, length) ==
    SubviewCall("W", offset, length, Writer_subview(mem, offset, length))

\* a call on the Reader a subview returned; a copy that runs past the end of
\* the parent's region is undefined: it returns stray bytes or crashes
SubReaderCall(op, T, n, r) ==
    /\ Running
    /\ sub.cur \in {"R", "as_reader", "reader"} /\ sub.err = "none"
    /\ \/ /\ sub' = [sub EXCEPT !.pos = r.pos]
          /\ mem' = memcpy_source(mem, sub.data + r.lo, sub.data + r.hi)
          /\ last' = Call("SR", op, T, n, sub.pos, r)
       \/ /\ r.err = "none" /\ sub.data + r.hi > size
          /\ sub' = sub
          /\ mem' = mem
          /\ last' = Call("SR", op, T, n, sub.pos, [r EXCEPT !.err = "crash", !.ret = <<>>])
    /\ UNCHANGED <<little, rpos, wpos, wrote, sw, stream_pos, race>>

V_seek(p) == SubReaderCall("seek", "-", p, Reader_seek(SubRegion(0), sub.pos, p))
V_skip(n) == SubReaderCall("skip", "-", n, Reader_skip(SubRegion(0), sub.pos, n))
V_read(T) == \E oob \in OobBytes :
    SubReaderCall("read", T, sizeof(T), Reader_read(SubRegion(oob), sub.pos, T, oob))

NextSub ==
    \/ \E offset \in SubOffsets : \E length \in SubLengths : P_subview(offset, length)
    \/ \E offset \in SubOffsets : \E length \in SubLengths : PW_subview(offset, length)
    \/ \E p \in 0 .. SubSize : R_seek(p)
    \/ \E T \in SubTypes : R_read(T)
    \/ \E p \in 0 .. 2 : V_seek(p)
    \/ \E n \in 0 .. 2 : V_skip(n)
    \/ \E T \in SubTypes : V_read(T)

SpecSub == InitSub /\ [][NextSub]_vars


\* -------------------------------------------------------------- SpecText
\* One C-string, length-prefixed string or bare 32-bit length written, then
\* read back as a C-string or a length-prefixed string, on a host of either
\* byte order.

\* size of the region of SpecText
TextSize == 7
TextStrings == {<<>>, <<65>>, <<0>>, <<65, 0>>, <<65, 0, 66>>, <<65, 66, 67>>}
\* lengths announced by a bare prefix: more than the region holds
PrefixLengths == {TextSize - 3, TextSize, SIZE_MAX - 3, SIZE_MAX}

\* offsets written at: near the end only part of a string fits
TextWriteOffsets == Offsets \cup {TextSize - 2}

InitText ==
    /\ little \in BOOLEAN
    /\ mem = [i \in 1 .. TextSize |-> 0]
    /\ rpos = 0
    /\ wpos = 0
    /\ last = NoCall
    /\ wrote = NoWrite
    /\ sw = NoSwap
    /\ sub = NoSub
    /\ stream_pos = 0
    /\ race = NoRace

\* a Writer call whose argument and outcome are kept in `wrote`
TextWrite(op, T, v, n, r) ==
    /\ wrote.op = "-"
    /\ WriterDo(op, T, n, r)
    /\ wrote' = Wrote(op, T, v, r)

T_W_seek(p) ==
    /\ last.op = "init"
    /\ WriterCall("seek", "-", p, Writer_seek(mem, wpos, p))
T_write_cstring(s) ==
    TextWrite("write_cstring", "-", s, Len(s) + 1, Writer_write_cstring(mem, wpos, s))
T_write_sized_string_le(s) ==
    TextWrite("write_sized_string_le", "-", s, Len(s) + 4,
              Writer_write_sized_string_le(mem, wpos, s))
T_write_sized_string_be(s) ==
    TextWrite("write_sized_string_be", "-", s, Len(s) + 4,
              Writer_write_sized_string_be(mem, wpos, s))
T_write_le(L) ==
    TextWrite("write_le", "u32", u32_from_size(L), 4,
              Writer_write_le(mem, wpos, "u32", u32_from_size(L)))
T_write_be(L) ==
    TextWrite("write_be", "u32", u32_from_size(L), 4,
              Writer_write_be(mem, wpos, "u32", u32_from_size(L)))

TextReads == {"read_cstring", "read_sized_string_le", "read_sized_string_be"}

T_R_seek(p) ==
    /\ wrote.op # "-" /\ last.cur = "W"
    /\ R_seek(p)
T_read_cstring ==
    /\ wrote.op # "-" /\ last.op \notin TextReads
    /\ R_read_cstring
\* the 4 bytes at the position, read as a prefix, announce a length that
\* std::size_t holds (or fewer than 4 bytes are left)
T_read_sized_string_le ==
    /\ wrote.op # "-" /\ last.op \notin TextReads
    /\ rpos + 4 <= size => FitsSize(Reader_read_le(mem, rpos, "u32", 0).ret)
    /\ \E oob \in OobBytes :
          ReaderCall("read_sized_string_le", "-", 0,
                     Reader_read_sized_string_le(mem, rpos, oob))
T_read_sized_string_be ==
    /\ wrote.op # "-" /\ last.op \notin TextReads
    /\ rpos + 4 <= size => FitsSize(Reader_read_be(mem, rpos, "u32", 0).ret)
    /\ \E oob \in OobBytes :
          ReaderCall("read_sized_string_be", "-", 0,
                     Reader_read_sized_string_be(mem, rpos, oob))

NextText ==
    \/ \E p \in TextWriteOffsets : T_W_seek(p)
    \/ \E s \in TextStrings : T_write_cstring(s)
    \/ \E s \in TextStrings : T_write_sized_string_le(s)
    \/ \E s \in TextStrings : T_write_sized_string_be(s)
    \/ \E L \in PrefixLengths : T_write_le(L)
    \/ \E L \in PrefixLengths : T_write_be(L)
    \/ \E p \in Offsets \cup {TextSize - 3, TextSize} : T_R_seek(p)
    \/ T_read_cstring
    \/ T_read_sized_string_le
    \/ T_read_sized_string_be

SpecText == InitText /\ [][NextText]_vars

\* ============================================ cursors made from other cursors
\* Writer::as_reader() and Stream::reader() / writer() build a cursor from the
\* region of another object.  The produced Reader is held in `sub` (data_ as
\* an offset into mem, size_, position_); a produced Writer replaces the
\* Writer of the model.
ViewSize == 3

\* faulty variant (sensitivity of C22): the Reader inherits the Writer's position
Writer_as_reader_snapshot(m, pos) ==
    [err |-> "none", data |-> 0, size |-> Len(m), pos |-> pos]

\* Reader{data_, size_}: the constructor sets position_ to 0
Writer_as_reader(m, pos) ==
    [err |-> "none", data |-> 0, size |-> Len(m), pos |-> 0]

\* Stream of the first definition in stream.hpp, the one the include guard
\* keeps: the cursor is constructed and then seeks to pos_; seek throws
\* std::out_of_range when pos_ > size_, which in a noexcept function is
\* std::terminate
Stream_reader(m, pos) ==
    LET r == Reader_seek(m, 0, pos)
    IN  [err |-> (IF r.err = "none" THEN "none" ELSE "terminate"),
         data |-> 0, size |-> Len(m), pos |-> r.pos]
Stream_writer(m, pos) ==
    LET w == Writer_seek(m, 0, pos)
    IN  [err |-> (IF w.err = "none" THEN "none" ELSE "terminate"),
         data |-> 0, size |-> Len(m), pos |-> w.pos]
\* Stream of the second definition in stream.hpp: Reader(data_, size_)
Stream2_reader(m, pos) ==
    [err |-> "none", data |-> 0, size |-> Len(m), pos |-> 0]
Stream2_writer(m, pos) ==
    [err |-> "none", data |-> 0, size |-> Len(m), pos |-> 0]
Stream_seek(pos, p) == p
Stream_rewind(pos) == 0
Stream_position(pos) == pos

StreamVariants == {"first", "second"}
StreamOffsets == 0 .. ViewSize + 1
ViewCounts == (0 .. 2) \cup {SIZE_MAX}

InitView ==
    /\ little = TRUE
    /\ mem = [i \in 1 .. ViewSize |-> 0]
    /\ rpos = 0
    /\ wpos = 0
    /\ last = NoCall
    /\ wrote = NoWrite
    /\ sw = NoSwap
    /\ sub = NoSub
    /\ stream_pos = 0
    /\ race = NoRace

\* a call that produces a Reader: r is its data_, size_ and position_
MakeReader(cur, op, T, pre, r) ==
    /\ Running
    /\ sub' = [cur |-> op, offset |-> 0, length |-> 0, err |-> r.err,
               data |-> r.data, size |-> r.size, pos |-> r.pos]
    /\ last' = [NoCall EXCEPT !.cur = cur, !.op = op, !.T = T, !.pre = pre,
                              !.err = r.err]
    /\ UNCHANGED <<little, mem, rpos, wpos, wrote, sw, stream_pos, race>>

A_as_reader == MakeReader("W", "as_reader", "-", wpos, Writer_as_reader(mem, wpos))

ST_reader(variant) ==
    MakeReader("Stream", "reader", variant, stream_pos,
               IF variant = "first" THEN Stream_reader(mem, stream_pos)
                                    ELSE Stream2_reader(mem, stream_pos))

\* Stream::writer(): the Writer it returns is the Writer of the model from now on
ST_writer(variant) ==
    LET w == IF variant = "first" THEN Stream_writer(mem, stream_pos)
                                  ELSE Stream2_writer(mem, stream_pos)
    IN  /\ Running
        /\ wpos' = w.pos
        /\ last' = [NoCall EXCEPT !.cur = "Stream", !.op = "writer", !.T = variant,
                                  !.pre = stream_pos, !.err = w.err]
        /\ UNCHANGED <<little, mem, rpos, wrote, sw, sub, stream_pos, race>>

StreamCall(op, p, pos) ==
    /\ Running
    /\ stream_pos' = pos
    /\ last' = [NoCall EXCEPT !.cur = "Stream", !.op = op, !.n = p, !.pre = stream_pos]
    /\ UNCHANGED <<little, mem, rpos, wpos, wrote, sw, sub, race>>

ST_seek(p) == StreamCall("seek", p, Stream_seek(stream_pos, p))
ST_rewind == StreamCall("rewind", 0, Stream_rewind(stream_pos))

NextView ==
    \/ A_as_reader
    \/ \E variant \in StreamVariants : ST_reader(variant)
    \/ \E variant \in StreamVariants : ST_writer(variant)
    \/ \E p \in StreamOffsets : ST_seek(p)
    \/ ST_rewind
    \/ \E p \in 0 .. ViewSize : W_seek(p)
    \/ \E v \in {<<65>>} : W_write("u8", v)
    \/ \E p \in ViewCounts : V_seek(p)
    \/ \E n \in ViewCounts : V_skip(n)
    \/ V_read("u8")

SpecView == InitView /\ [][NextView]_vars


\* ============================================================ serialization
\* serialization.hpp: write_field / read_field choose the codec of a type at
\* compile time from its capabilities; write_vector / read_vector add a count.
\* Values: std::string a sequence of bytes, an arithmetic value its bytes,
\* EndiannessTest its uint32_t value, Vehicle the pair <<model, year>>, a
\* vector the sequence of its elements.
SerSize == 9

\* what the traits of serialization.hpp:33-62 say of a type.  SerializeOnly
\* and DeserializeOnly are EndiannessTest with one of its two functions
\* removed; "vector<int>" is a type that is neither trivially copyable nor
\* serializable.
FieldTypes ==
    {"string", "u8", "u32", "EndiannessTest", "Vehicle",
     "SerializeOnly", "DeserializeOnly", "vector<int>"}
Capabilities(T) ==
    [text |-> T = "string",
     serialize |-> T \in {"EndiannessTest", "Vehicle", "SerializeOnly",
                          "Person", "Vec2", "GameState"},
     deserialize |-> T \in {"EndiannessTest", "Vehicle", "DeserializeOnly",
                            "Person", "Vec2", "GameState"},
     crtp |-> T = "Vehicle",
     trivial |-> T \in {"u8", "u32", "f32", "EndiannessTest", "SerializeOnly",
                        "DeserializeOnly", "Vec2"}]

has_serialize_method(c) == c.serialize
has_deserialize_static(c) == c.deserialize
is_crtp_serializable(c) == c.crtp
is_trivially_serializable(c) == c.trivial
is_serializable(c) ==
    has_serialize_method(c) \/ has_deserialize_static(c) \/ is_crtp_serializable(c)

\* faulty variant (sensitivity of C26): the raw copy is tried before the
\* custom routine
write_field_codec_rawfirst(c) ==
    IF c.text THEN "write_sized_string_le"
    ELSE IF is_trivially_serializable(c) THEN "write_native"
    ELSE IF has_serialize_method(c) THEN "serialize"
    ELSE "static_assert"

\* the branch of write_field's if constexpr chain that is compiled for a type
write_field_codec(c) ==
    IF c.text THEN "write_sized_string_le"
    ELSE IF has_serialize_method(c) THEN "serialize"
    ELSE IF is_trivially_serializable(c) /\ ~is_serializable(c) THEN "write_native"
    ELSE "static_assert"

\* faulty variant (sensitivity of C37): the raw copy is tried before the
\* custom routine
read_field_codec_rawfirst(c) ==
    IF c.text THEN "read_sized_string_le"
    ELSE IF is_trivially_serializable(c) THEN "read_native"
    ELSE IF has_deserialize_static(c) \/ is_crtp_serializable(c) THEN "deserialize"
    ELSE "static_assert"

\* the branch of read_field's if constexpr chain that is compiled for a type
read_field_codec(c) ==
    IF c.text THEN "read_sized_string_le"
    ELSE IF has_deserialize_static(c) \/ is_crtp_serializable(c) THEN "deserialize"
    ELSE IF is_trivially_serializable(c) /\ ~is_serializable(c) THEN "read_native"
    ELSE "static_assert"

Writer_write_native(m, pos, T, v) == Writer_write(m, pos, T, v)
\* faulty variant (sensitivity of C34): the raw copy read back little-endian
Reader_read_native_le(m, position, T, oob) == Reader_read_le(m, position, T, oob)
Reader_read_native(m, position, T, oob) == Reader_read(m, position, T, oob)

\* the fields the custom types pass to write_fields / write_field in
\* serialize and read with read_field in deserialize, in that order
\* (GameState: those before its list)
Fields ==
    [T \in {"Vehicle", "Person", "Vec2", "GameState"} |->
        CASE T = "Vehicle" -> <<"string", "u32">>
          [] T = "Person" -> <<"string", "u32", "f32">>
          [] T = "Vec2" -> <<"f32", "f32">>
          [] T = "GameState" -> <<"u32", "string", "Vec2">>]

RECURSIVE Writer_write_field(_, _, _, _)
\* write_fields(w, ts...) is (write_field(w, ts), ...): the fields one after
\* the other from field i on, each where the one before ended, none after one
\* that threw; the loop of write_vector is the same fold
RECURSIVE write_fields(_, _, _, _)
write_fields(w, Ts, vs, i) ==
    IF w.err # "none" \/ i > Len(Ts) THEN w
    ELSE write_fields([Writer_write_field(w.mem, w.pos, Ts[i], vs[i]) EXCEPT !.lo = w.lo],
                      Ts, vs, i + 1)

\* T::serialize of the custom types: EndiannessTest writes value with
\* write_field_le; Vehicle (through Serializable<Vehicle>::serialize and
\* serialize_impl) writes write_fields(w, model, year); Person writes
\* write_fields(w, name, age, height), Vec2 write_fields(w, x, y); GameState
\* writes level, player_name, player_pos with write_field (its list is
\* added by GameState_serialize)
serialize(m, pos, T, v) ==
    IF T \notin DOMAIN Fields THEN Writer_write_le(m, pos, "u32", v)
    ELSE write_fields(WOk(m, pos, pos, pos), Fields[T], v, 1)

Writer_write_field(m, pos, T, v) ==
    LET codec == write_field_codec(Capabilities(T))
    IN  CASE codec = "write_sized_string_le" -> Writer_write_sized_string_le(m, pos, v)
          [] codec = "serialize" -> serialize(m, pos, T, v)
          [] codec = "write_native" -> Writer_write_native(m, pos, T, v)

RECURSIVE Reader_read_field(_, _, _, _)
\* faulty variant (sensitivity of C27): every field is read where the first
\* one starts
RECURSIVE read_fields_stuck(_, _, _, _, _)
read_fields_stuck(m, r, Ts, i, oob) ==
    IF i > Len(Ts) THEN r
    ELSE LET e == Reader_read_field(m, r.lo, Ts[i], oob)
         IN  IF e.err # "none" THEN [e EXCEPT !.lo = r.lo]
             ELSE read_fields_stuck(m, [e EXCEPT !.lo = r.lo, !.ret = Append(r.ret, e.ret)],
                                    Ts, i + 1, oob)

\* read_field<Ts[i]>(r) for each i in turn, the values collected in ret
RECURSIVE read_fields(_, _, _, _, _)
read_fields(m, r, Ts, i, oob) ==
    IF i > Len(Ts) THEN r
    ELSE LET e == Reader_read_field(m, r.pos, Ts[i], oob)
         IN  IF e.err # "none" THEN [e EXCEPT !.lo = r.lo]
             ELSE read_fields(m, [e EXCEPT !.lo = r.lo, !.ret = Append(r.ret, e.ret)],
                              Ts, i + 1, oob)

\* T::deserialize of the custom types; Vehicle through
\* Serializable<Vehicle>::deserialize and deserialize_impl:
\* model = read_field<std::string>(r); year = read_field<uint32_t>(r).
\* GameState reads its three fields (its list is added by
\* GameState_deserialize).
deserialize(m, position, T, oob) ==
    IF T \notin DOMAIN Fields THEN Reader_read_le(m, position, "u32", oob)
    ELSE read_fields(m, ROk(position, <<>>, position, position), Fields[T], 1, oob)

Reader_read_field(m, position, T, oob) ==
    LET codec == read_field_codec(Capabilities(T))
    IN  CASE codec = "read_sized_string_le" -> Reader_read_sized_string_le(m, position, oob)
          [] codec = "deserialize" -> deserialize(m, position, T, oob)
          [] codec = "read_native" -> Reader_read_native(m, position, T, oob)

\* faulty variant (sensitivity of C24): the count in host order
Writer_write_vector_native(m, pos, T, v) ==
    write_fields(Writer_write(m, pos, "u32", u32_from_size(Len(v))),
                 [k \in 1 .. Len(v) |-> T], v, 1)

\* the count, then for (const auto& x : v) write_field(w, x)
Writer_write_vector(m, pos, T, v) ==
    write_fields(Writer_write_le(m, pos, "u32", u32_from_size(Len(v))),
                 [k \in 1 .. Len(v) |-> T], v, 1)

\* sizeof of an element of a std::vector
object_size(T) == IF T = "u8" THEN 1 ELSE 4
\* std::vector<T>::max_size(): PTRDIFF_MAX / sizeof(T)
vector_max_size(T) == (SizeMod \div 2 - 1) \div object_size(T)
\* out.reserve(n) with heap bytes free: std::length_error beyond max_size(),
\* std::bad_alloc when the allocation fails
reserve(T, n, heap) ==
    IF n > vector_max_size(T) THEN "length_error"
    ELSE IF n * object_size(T) > heap THEN "bad_alloc"
    ELSE "none"

\* n = read_le<uint32_t>(); out.reserve(n);
\* for (i = 0; i < n; ++i) out.push_back(read_field<T>(r))
Reader_read_vector(m, position, T, heap, oob) ==
    LET n == Reader_read_le(m, position, "u32", oob)
    IN  IF n.err # "none" THEN n
        ELSE LET res == reserve(T, size_from_u32(n.ret), heap)
             IN  IF res # "none" THEN [RThrow(res, n.pos) EXCEPT !.lo = position]
                 ELSE read_fields(m, [n EXCEPT !.ret = <<>>],
                                  [k \in 1 .. size_from_u32(n.ret) |-> T], 1, oob)

\* GameState::serialize: the three fields, then write_vector(w, inventory_ids).
\* GameState is a field of no other type: its codec stands outside the
\* recursion of write_field and serialize.
GameState_serialize(m, pos, v) ==
    LET w == serialize(m, pos, "GameState", v)
    IN  IF w.err # "none" THEN w
        ELSE [Writer_write_vector(w.mem, w.pos, "u32", v[4]) EXCEPT !.lo = pos]
\* GameState::deserialize: the three fields, then read_vector<uint32_t>(r),
\* for which the allocator has the memory
GameState_deserialize(m, position, oob) ==
    LET r == deserialize(m, position, "GameState", oob)
    IN  IF r.err # "none" THEN r
        ELSE LET l == Reader_read_vector(m, r.pos, "u32", SIZE_MAX, oob)
             IN  IF l.err # "none" THEN [l EXCEPT !.lo = position]
                 ELSE [l EXCEPT !.lo = position, !.ret = Append(r.ret, l.ret)]
\* write_field(w, v) and read_field<T>(r) of a value that is no field of
\* another
write_field(m, pos, T, v) ==
    IF T = "GameState" /\ write_field_codec(Capabilities(T)) = "serialize"
    THEN GameState_serialize(m, pos, v)
    ELSE Writer_write_field(m, pos, T, v)
read_field(m, position, T, oob) ==
    IF T = "GameState" /\ read_field_codec(Capabilities(T)) = "deserialize"
    THEN GameState_deserialize(m, position, oob)
    ELSE Reader_read_field(m, position, T, oob)

\* a deserialize of Vehicle that reads the fields in the other order:
\* year = read_field<uint32_t>(r); model = read_field<std::string>(r)
Vehicle_deserialize_swapped(m, position, oob) ==
    LET r == read_fields(m, ROk(position, <<>>, position, position),
                         <<"u32", "string">>, 1, oob)
    IN  IF r.err # "none" THEN r ELSE [r EXCEPT !.ret = <<r.ret[2], r.ret[1]>>]

SerWords == {<<0, 0, 0, 0>>, <<5, 0, 0, 0>>, <<0, 0, 0, 7>>, <<1, 2, 3, 4>>}
SerValues(T) ==
    CASE T = "string" -> {<<>>, <<1>>, <<0, 2>>}
      [] T = "u8" -> {<<1>>, <<2>>}
      [] T = "Vehicle" -> {<<model, year>> : model \in {<<>>, <<0>>}, year \in SerWords}
      [] OTHER -> SerWords
VectorTypes == {"u8", "u32", "EndiannessTest"}
Vectors(T) == {<<>>} \cup {<<x>> : x \in SerValues(T)}
                     \cup (IF T = "u8" THEN {<<<<1>>, <<2>>>>} ELSE {})
\* counts written as a bare prefix: lists that are not there
SerCounts == {1, 3, SerSize, SIZE_MAX}
\* bytes the allocator can still hand out: never less than the region holds
HeapBytes == {SerSize, SIZE_MAX}
SerReads == {"read_field", "read_field_swapped", "read_vector"}

InitSer ==
    /\ little \in BOOLEAN
    /\ mem = [i \in 1 .. SerSize |-> 0]
    /\ rpos = 0
    /\ wpos = 0
    /\ last = NoCall
    /\ wrote = NoWrite
    /\ sw = NoSwap
    /\ sub = NoSub
    /\ stream_pos = 0
    /\ race = NoRace

\* the 4 bytes at offset p, when there are 4, are a length std::size_t holds
PrefixFits(p) == p + 4 <= size => FitsSize(Fetch(mem, p, 4, 0))

F_write_field(T, v) ==
    /\ write_field_codec(Capabilities(T)) # "static_assert"
    /\ TextWrite("write_field", T, v, 0, Writer_write_field(mem, wpos, T, v))
F_write_vector(T, v) ==
    TextWrite("write_vector", T, v, Len(v), Writer_write_vector(mem, wpos, T, v))

F_read_field(T) ==
    /\ wrote.op # "-" /\ last.op \notin SerReads
    /\ read_field_codec(Capabilities(T)) # "static_assert"
    /\ T \in {"string", "Vehicle"} => PrefixFits(rpos)
    /\ \E oob \in OobBytes :
          ReaderCall("read_field", T, 0, Reader_read_field(mem, rpos, T, oob))
F_read_field_swapped ==
    /\ wrote.op # "-" /\ last.op \notin SerReads
    /\ PrefixFits(rpos + 4)
    /\ \E oob \in OobBytes :
          ReaderCall("read_field_swapped", "Vehicle", 0,
                     Vehicle_deserialize_swapped(mem, rpos, oob))
F_read_vector(T) ==
    /\ wrote.op # "-" /\ last.op \notin SerReads
    /\ PrefixFits(rpos)
    /\ \E oob \in OobBytes, heap \in HeapBytes :
          ReaderCall("read_vector", T, heap, Reader_read_vector(mem, rpos, T, heap, oob))

NextSer ==
    \/ \E p \in Offsets : T_W_seek(p)
    \/ \E T \in FieldTypes : \E v \in SerValues(T) : F_write_field(T, v)
    \/ \E T \in VectorTypes : \E v \in Vectors(T) : F_write_vector(T, v)
    \/ \E L \in SerCounts : T_write_le(L)
    \/ \E p \in Offsets : T_R_seek(p)
    \/ \E T \in FieldTypes : F_read_field(T)
    \/ F_read_field_swapped
    \/ \E T \in VectorTypes : F_read_vector(T)

SpecSer == InitSer /\ [][NextSer]_vars

\* -------------------------------------------------------------- SpecTrip
\* Values written one after the other with write_field from position 0, then
\* decoded one after the other with read_field from position 0.  `wrote`
\* keeps the types, the values and the position after each write.
TripSize == 26
\* how many values are written one after the other
MaxValues == 2
TripTypes == {"u8", "u32", "f32", "string", "EndiannessTest", "Vehicle", "Vec2",
              "Person", "GameState"}
TripWords == {<<5, 0, 0, 0>>, <<1, 2, 3, 4>>}
TripValues(T) ==
    CASE T = "u8" -> {<<1>>}
      [] T = "string" -> {<<>>, <<0, 2>>}
      [] T = "Vehicle" -> {<<model, year>> : model \in {<<>>, <<65>>}, year \in TripWords}
      [] T = "Vec2" -> {<<<<0, 0, 200, 66>>, <<0, 0, 72, 67>>>>}
      [] T = "Person" -> {<<<<66>>, <<25, 0, 0, 0>>, <<0, 0, 224, 63>>>>}
      [] T = "GameState" ->
            {<<<<5, 0, 0, 0>>, name, <<<<0, 0, 200, 66>>, <<0, 0, 72, 67>>>>, ids>> :
                name \in {<<>>, <<80>>}, ids \in {<<>>, <<<<233, 3, 0, 0>>>>}}
      [] OTHER -> TripWords

InitTrip ==
    /\ little \in BOOLEAN
    /\ mem = [i \in 1 .. TripSize |-> 0]
    /\ rpos = 0
    /\ wpos = 0
    /\ last = NoCall
    /\ wrote = [NoWrite EXCEPT !.T = <<>>, !.at = <<>>]
    /\ sw = NoSwap
    /\ sub = NoSub
    /\ stream_pos = 0
    /\ race = NoRace

\* write_field(w, v), the next value
G_write_field(T, v) ==
    /\ Len(wrote.T) < MaxValues /\ wrote.err = "none" /\ last.cur # "R"
    /\ LET r == write_field(mem, wpos, T, v)
       IN  /\ WriterDo("write_field", T, 0, r)
           /\ wrote' = [op |-> "write_field", T |-> Append(wrote.T, T),
                        v |-> Append(wrote.v, v), at |-> Append(wrote.at, r.pos),
                        err |-> r.err]
\* read_field<T>(r) of the type of the next value written; last.n counts
\* the values decoded
G_read_field ==
    /\ wrote.err = "none" /\ last.err = "none"
    /\ LET k == IF last.cur = "R" THEN last.n + 1 ELSE 1
       IN  /\ k <= Len(wrote.T)
           /\ \E oob \in OobBytes :
                 ReaderCall("read_field", wrote.T[k], k,
                            read_field(mem, rpos, wrote.T[k], oob))

NextTrip ==
    \/ \E T \in TripTypes : \E v \in TripValues(T) : G_write_field(T, v)
    \/ G_read_field

SpecTrip == InitTrip /\ [][NextTrip]_vars

\* -------------------------------------------------------------- SpecCaps
\* The dispatch of write_field and read_field as functions of what the
\* traits say of a type: a combination of capabilities is drawn (last.T),
\* each side picks its branch (wrote.op, last.op).
CapabilitySets ==
    [text : BOOLEAN, serialize : BOOLEAN, deserialize : BOOLEAN, crtp : BOOLEAN,
     trivial : BOOLEAN]

InitCaps ==
    /\ little = TRUE
    /\ mem = <<>>
    /\ rpos = 0
    /\ wpos = 0
    /\ \E c \in CapabilitySets : last = [NoCall EXCEPT !.T = c]
    /\ wrote = NoWrite
    /\ sw = NoSwap
    /\ sub = NoSub
    /\ stream_pos = 0
    /\ race = NoRace

\* write_field<T> is instantiated
D_write_field ==
    /\ wrote.op = "-"
    /\ wrote' = [NoWrite EXCEPT !.op = write_field_codec(last.T)]
    /\ UNCHANGED <<little, mem, rpos, wpos, last, sw, sub, stream_pos, race>>
\* read_field<T> is instantiated
D_read_field ==
    /\ last.op = "init"
    /\ last' = [last EXCEPT !.op = read_field_codec(last.T)]
    /\ UNCHANGED <<little, mem, rpos, wpos, wrote, sw, sub, stream_pos, race>>

NextCaps == D_write_field \/ D_read_field

SpecCaps == InitCaps /\ [][NextCaps]_vars


\* ===================================================== the Reader on its own
\* every Reader operation, and the Reader a subview returns, over the region
\* of InitSub (byte i holds i); nothing but a Reader touches the region
NextFrame ==
    \/ \E p \in Counts : R_seek(p)
    \/ R_rewind
    \/ \E n \in Counts : R_skip(n)
    \/ \E a \in Alignments : R_align(a)
    \/ \E T \in SubTypes : R_read(T)
    \/ \E T \in SubTypes : R_peek(T)
    \/ \E n \in Counts : R_read_bytes(n)
    \/ \E n \in Counts : R_read_string(n)
    \/ \E n \in Counts : R_view_string(n)
    \/ R_read_cstring
    \/ \E T \in ArrayTypes : \E count \in 0 .. MaxCount : R_read_array(T, count)
    \/ \E offset \in Offsets : \E length \in {1, SIZE_MAX} : P_subview(offset, length)
    \/ \E T \in SubTypes : V_read(T)

SpecFrame == InitSub /\ [][NextFrame]_vars


\* ============================================== two threads, one Reader
\* read<std::uint8_t>() and peek<std::uint8_t>() called on the same Reader by
\* two threads with no synchronisation.  position_ is a plain std::size_t:
\* each access of it is a step of its own, and the build may keep the value
\* one access loaded in a register and use it again at the next access.
RaceSize == 2
MaxCalls == 2
Threads == {1, 2}
RaceOps == {"read", "peek"}
Idle ==
    [pc |-> "idle", op |-> "-", pre |-> 0, saved |-> 0, chk |-> 0, tmp |-> 0,
     calls |-> 0, res |-> "-", post |-> 0]
Other(t) == 3 - t
\* position_ as an access sees it: loaded again, or the value loaded before
Loaded(t) == {rpos, race.th[t].chk}

InitRace ==
    /\ little = TRUE
    /\ mem = [i \in 1 .. RaceSize |-> i - 1]
    /\ rpos \in 0 .. RaceSize
    /\ wpos = 0
    /\ last = NoCall
    /\ wrote = NoWrite
    /\ sw = NoSwap
    /\ sub = NoSub
    /\ stream_pos = 0
    /\ race = [NoRace EXCEPT !.th = <<Idle, Idle>>]

\* the call returns (res = "ok") or throws; a peek that returns with the
\* position off its pre-call value while no read was ever called is recorded
Return(t, res, position) ==
    [race EXCEPT
        !.th[t] = [Idle EXCEPT !.op = race.th[t].op, !.pre = race.th[t].pre,
                               !.calls = race.th[t].calls, !.res = res,
                               !.post = position],
        !.peek_moved = @ \/ (/\ race.th[t].op = "peek" /\ res = "ok"
                             /\ race.reads = 0 /\ position # race.th[t].pre)]

\* thread t enters read or peek
T_call(t, op) ==
    /\ ~race.crash
    /\ race.th[t].pc = "idle"
    /\ race.th[t].calls < MaxCalls
    /\ race' = [race EXCEPT
            !.th[t] = [Idle EXCEPT !.pc = IF op = "peek" THEN "save" ELSE "check",
                                   !.op = op, !.pre = rpos,
                                   !.calls = race.th[t].calls + 1],
            !.overlap = @ \/ race.th[Other(t)].pc # "idle",
            !.reads = IF op = "read" THEN 1 ELSE @]
    /\ UNCHANGED <<little, mem, rpos, wpos, last, wrote, sw, sub, stream_pos>>

\* peek: auto saved = position_
T_save(t) ==
    /\ ~race.crash
    /\ race.th[t].pc = "save"
    /\ race' = [race EXCEPT !.th[t].pc = "check", !.th[t].saved = rpos]
    /\ UNCHANGED <<little, mem, rpos, wpos, last, wrote, sw, sub, stream_pos>>

\* read: check_bounds(sizeof(T)); the exception leaves read, and peek with it
T_check(t) ==
    /\ ~race.crash
    /\ race.th[t].pc = "check"
    /\ race' = IF check_bounds(mem, rpos, 1)
               THEN Return(t, "Underflow", rpos)
               ELSE [race EXCEPT !.th[t].pc = "copy", !.th[t].chk = rpos]
    /\ UNCHANGED <<little, mem, rpos, wpos, last, wrote, sw, sub, stream_pos>>

\* read: memcpy(&value, data_ + position_, sizeof(T)); a copy from beyond the
\* region is undefined: it yields whatever lies there or ends the process
T_copy(t) ==
    /\ ~race.crash
    /\ race.th[t].pc = "copy"
    /\ \E position \in Loaded(t) :
        IF position + 1 > size
        THEN \E crash \in BOOLEAN :
                race' = [race EXCEPT !.th[t].pc = "load", !.oob = TRUE,
                                     !.crash = crash]
        ELSE race' = [race EXCEPT !.th[t].pc = "load"]
    /\ UNCHANGED <<little, mem, rpos, wpos, last, wrote, sw, sub, stream_pos>>

\* read: position_ += sizeof(T), the load
T_load(t) ==
    /\ ~race.crash
    /\ race.th[t].pc = "load"
    /\ \E position \in Loaded(t) :
        race' = [race EXCEPT !.th[t].pc = "store", !.th[t].tmp = position]
    /\ UNCHANGED <<little, mem, rpos, wpos, last, wrote, sw, sub, stream_pos>>

\* read: position_ += sizeof(T), the store; then read returns
T_store(t) ==
    /\ ~race.crash
    /\ race.th[t].pc = "store"
    /\ rpos' = (race.th[t].tmp + 1) % SizeMod
    /\ race' = IF race.th[t].op = "peek"
               THEN [race EXCEPT !.th[t].pc = "restore"]
               ELSE Return(t, "ok", rpos')
    /\ UNCHANGED <<little, mem, wpos, last, wrote, sw, sub, stream_pos>>

\* faulty variant (sensitivity of C29): peek forgets to put the position back
peek_restore_skip(saved, position) == position
\* peek: position_ = saved
peek_restore(saved, position) == saved

T_restore(t) ==
    /\ ~race.crash
    /\ race.th[t].pc = "restore"
    /\ rpos' = peek_restore(race.th[t].saved, rpos)
    /\ race' = Return(t, "ok", rpos')
    /\ UNCHANGED <<little, mem, wpos, last, wrote, sw, sub, stream_pos>>

NextRace ==
    \/ \E t \in Threads : \E op \in RaceOps : T_call(t, op)
    \/ \E t \in Threads : T_save(t)
    \/ \E t \in Threads : T_check(t)
    \/ \E t \in Threads : T_copy(t)
    \/ \E t \in Threads : T_load(t)
    \/ \E t \in Threads : T_store(t)
    \/ \E t \in Threads : T_restore(t)

SpecRace == InitRace /\ [][NextRace]_vars



\* ------------------------------------------------------------- SpecArray
\* One array written with write_array_le / write_array_be, then read back
\* with read_array_le / read_array_be, on a host of either byte order.

\* size of the region of SpecArray
ArraySize == 5
\* the longest array: its 2-byte elements do not fit the region
ArrayLen == 3
\* the arrays of type T: element k holds the bytes 16k + 1, 16k + 2 (low
\* byte first), so that no two elements and no two bytes are alike
Arrays(T) == {[k \in 1 .. n |-> [i \in 1 .. sizeof(T) |-> 16 * k + i]] : n \in 0 .. ArrayLen}

\* for (i = 0; i < arr.size(); ++i) write_be<T>(arr[i]), and the same loop
\* with write_le: elements i.. one after the other, none after one that threw
RECURSIVE write_array_each(_, _, _, _, _)
write_array_each(w, T, arr, i, be) ==
    IF w.err # "none" \/ i > Len(arr) THEN w
    ELSE LET e == IF be THEN Writer_write_be(w.mem, w.pos, T, arr[i])
                        ELSE Writer_write_le(w.mem, w.pos, T, arr[i])
         IN  write_array_each([e EXCEPT !.lo = w.lo], T, arr, i + 1, be)

\* writer.hpp: write_array_be is the loop on every host
Writer_write_array_be(m, pos, T, arr) ==
    write_array_each(WOk(m, pos, pos, pos), T, arr, 1, TRUE)

\* the Writer with check(n): write_array when the order is the host's or the
\* elements are single bytes, the loop otherwise
Writer2_write_array_le(m, pos, T, arr) ==
    IF is_little_endian \/ sizeof(T) = 1 THEN Writer_write_array(m, pos, T, arr)
    ELSE write_array_each(WOk(m, pos, pos, pos), T, arr, 1, FALSE)
Writer2_write_array_be(m, pos, T, arr) ==
    IF is_big_endian \/ sizeof(T) = 1 THEN Writer_write_array(m, pos, T, arr)
    ELSE write_array_each(WOk(m, pos, pos, pos), T, arr, 1, TRUE)

\* for (auto &e : dest) e = read_le<T>() / read_be<T>(): r.ret holds the
\* elements stored in dest so far, r.pos the position
RECURSIVE read_array_each(_, _, _, _, _, _)
read_array_each(m, r, T, count, be, oob) ==
    IF r.err # "none" \/ Len(r.ret) >= count THEN r
    ELSE LET e == IF be THEN Reader_read_be(m, r.pos, T, oob)
                        ELSE Reader_read_le(m, r.pos, T, oob)
         IN  read_array_each(m,
                 [err |-> e.err, pos |-> e.pos,
                  ret |-> IF e.err = "none" THEN Append(r.ret, e.ret) ELSE r.ret,
                  lo |-> r.lo, hi |-> e.hi],
                 T, count, be, oob)

Reader_read_array_le(m, position, T, count, oob) ==
    IF is_little_endian \/ sizeof(T) = 1 THEN Reader_read_array(m, position, T, count)
    ELSE read_array_each(m, ROk(position, <<>>, position, position), T, count, FALSE, oob)

\* faulty variant (sensitivity of C33): the bulk copy on every host
Reader_read_array_be_bulk(m, position, T, count, oob) ==
    Reader_read_array(m, position, T, count)

Reader_read_array_be(m, position, T, count, oob) ==
    IF is_big_endian \/ sizeof(T) = 1 THEN Reader_read_array(m, position, T, count)
    ELSE read_array_each(m, ROk(position, <<>>, position, position), T, count, TRUE, oob)

\* the Reader of serialization.hpp: the loop on every host
Reader2_read_array_le(m, position, T, count, oob) ==
    read_array_each(m, ROk(position, <<>>, position, position), T, count, FALSE, oob)
Reader2_read_array_be(m, position, T, count, oob) ==
    read_array_each(m, ROk(position, <<>>, position, position), T, count, TRUE, oob)

InitArray ==
    /\ little \in BOOLEAN
    /\ mem = [i \in 1 .. ArraySize |-> 0]
    /\ rpos = 0
    /\ wpos = 0
    /\ last = NoCall
    /\ wrote = NoWrite
    /\ sw = NoSwap
    /\ sub = NoSub
    /\ stream_pos = 0
    /\ race = NoRace

ArrayReads == {"read_array_le", "read_array_be"}

A_write_array_be(T, arr) ==
    TextWrite("write_array_be", T, arr, Len(arr) * sizeof(T),
              Writer_write_array_be(mem, wpos, T, arr))
A2_write_array_le(T, arr) ==
    TextWrite("write_array_le", T, arr, Len(arr) * sizeof(T),
              Writer2_write_array_le(mem, wpos, T, arr))
A2_write_array_be(T, arr) ==
    TextWrite("write_array_be", T, arr, Len(arr) * sizeof(T),
              Writer2_write_array_be(mem, wpos, T, arr))
A_read_array_le(count) ==
    /\ wrote.op # "-" /\ last.op \notin ArrayReads
    /\ \E oob \in OobBytes :
          ReaderCall("read_array_le", wrote.T, count * sizeof(wrote.T),
                     Reader_read_array_le(mem, rpos, wrote.T, count, oob))
A_read_array_be(count) ==
    /\ wrote.op # "-" /\ last.op \notin ArrayReads
    /\ \E oob \in OobBytes :
          ReaderCall("read_array_be", wrote.T, count * sizeof(wrote.T),
                     Reader_read_array_be(mem, rpos, wrote.T, count, oob))
A2_read_array_le(count) ==
    /\ wrote.op # "-" /\ last.op \notin ArrayReads
    /\ \E oob \in OobBytes :
          ReaderCall("read_array_le", wrote.T, count * sizeof(wrote.T),
                     Reader2_read_array_le(mem, rpos, wrote.T, count, oob))
A2_read_array_be(count) ==
    /\ wrote.op # "-" /\ last.op \notin ArrayReads
    /\ \E oob \in OobBytes :
          ReaderCall("read_array_be", wrote.T, count * sizeof(wrote.T),
                     Reader2_read_array_be(mem, rpos, wrote.T, count, oob))

NextArray ==
    \/ \E p \in Offsets : T_W_seek(p)
    \/ \E T \in ArrayTypes : \E arr \in Arrays(T) : A_write_array_be(T, arr)
    \/ \E T \in ArrayTypes : \E arr \in Arrays(T) : A2_write_array_le(T, arr)
    \/ \E T \in ArrayTypes : \E arr \in Arrays(T) : A2_write_array_be(T, arr)
    \/ \E p \in Offsets : T_R_seek(p)
    \/ \E count \in 0 .. ArrayLen : A_read_array_le(count)
    \/ \E count \in 0 .. ArrayLen : A_read_array_be(count)
    \/ \E count \in 0 .. ArrayLen : A2_read_array_le(count)
    \/ \E count \in 0 .. ArrayLen : A2_read_array_be(count)

SpecArray == InitArray /\ [][NextArray]_vars

\* ------------------------------------------------------------- SpecWrite
\* The Writer on its own over a region whose byte i holds i, on a host of
\* either byte order: every write changes the region in place.
WriteSize == 4
WriteTypes == {"u8", "u16", "u32"}
WriteCounts == (0 .. 2) \cup {WriteSize, SIZE_MAX}
WriteStrings == {<<>>, <<65>>, <<65, 0>>}

InitWrite ==
    /\ little \in BOOLEAN
    /\ mem = [i \in 1 .. WriteSize |-> i]
    /\ rpos = 0
    /\ wpos = 0
    /\ last = NoCall
    /\ wrote = NoWrite
    /\ sw = NoSwap
    /\ sub = NoSub
    /\ stream_pos = 0
    /\ race = NoRace

NextWrite ==
    \/ \E p \in 0 .. WriteSize : W_seek(p)
    \/ \E T \in WriteTypes : \E v \in SpecValues(T) : W_write(T, v)
    \/ \E T \in WriteTypes : \E v \in SpecValues(T) : W_write_le(T, v)
    \/ \E T \in WriteTypes : \E v \in SpecValues(T) : W_write_be(T, v)
    \/ \E n \in WriteCounts : W_write_bytes(n, 65)
    \/ \E s \in WriteStrings : W_write_string(s)
    \/ \E n \in WriteCounts, value \in DataBytes : W_fill_bytes(value, n)

SpecWrite == InitWrite /\ [][NextWrite]_vars

\* ------------------------------------------------------------- SpecFixed
\* write_array(w, std::array<T, N>) and read_array<T, N>(r) over one region
FixedSize == 10
\* N, the length of the std::array, at most
FixedLen == 2
FixedTypes == {"u8", "f32", "string", "Vec2"}
FixedValues(T) ==
    CASE T = "u8" -> {<<1>>, <<2>>}
      [] T = "f32" -> {<<0, 0, 128, 63>>, <<0, 0, 0, 64>>}
      [] T = "string" -> {<<>>, <<65>>}
      [] T = "Vec2" -> {<<<<0, 0, 200, 66>>, <<0, 0, 72, 67>>>>}
FixedArrays(T) == UNION {[1 .. n -> FixedValues(T)] : n \in 0 .. FixedLen}

\* write_array with the count in front, as write_vector writes
write_array_counted(m, pos, T, a) == Writer_write_vector(m, pos, T, a)
\* for (const auto& x : a) write_field(w, x)
write_array(m, pos, T, a) ==
    write_fields(WOk(m, pos, pos, pos), [k \in 1 .. Len(a) |-> T], a, 1)
\* std::array<T, N> a{}; for (auto& x : a) x = read_field<T>(r)
read_array(m, position, T, N, oob) ==
    read_fields(m, ROk(position, <<>>, position, position), [k \in 1 .. N |-> T], 1, oob)

InitFixed ==
    /\ little \in BOOLEAN
    /\ mem = [i \in 1 .. FixedSize |-> 0]
    /\ rpos = 0
    /\ wpos = 0
    /\ last = NoCall
    /\ wrote = NoWrite
    /\ sw = NoSwap
    /\ sub = NoSub
    /\ stream_pos = 0
    /\ race = NoRace

F_write_array(T, a) ==
    TextWrite("write_array", T, a, Len(a), write_array(mem, wpos, T, a))
\* read_array<T, N>(r) of the element type written; last.n is N
F_read_array(N) ==
    /\ wrote.op # "-" /\ last.op # "read_array"
    /\ \E oob \in OobBytes :
          ReaderCall("read_array", wrote.T, N, read_array(mem, rpos, wrote.T, N, oob))

NextFixed ==
    \/ \E p \in Offsets : T_W_seek(p)
    \/ \E T \in FixedTypes : \E a \in FixedArrays(T) : F_write_array(T, a)
    \/ \E p \in Offsets : T_R_seek(p)
    \/ \E N \in 0 .. FixedLen : F_read_array(N)

SpecFixed == InitFixed /\ [][NextFixed]_vars


\* ==================================================================== claims
\* the position of the cursor the last call was made on
PosAfter == IF last.cur = "R" THEN rpos ELSE wpos
\* reference byte reversal: byte i of the result is byte w - 1 - i of v
ReverseBytes(v) == [i \in 1 .. Len(v) |-> v[Len(v) + 1 - i]]

\* C1: for the Reader and the Writer, after any sequence of calls, each
\* succeeding or failing, 0 <= position <= size.
C1_PositionWithinSize ==
    /\ 0 <= rpos /\ rpos <= size
    /\ 0 <= wpos /\ wpos <= size

\* both cursors sit at the end of a non-empty region and a call has just failed
C1_Witness ==
    /\ size = MaxSize /\ rpos = size /\ wpos = size
    /\ last.err \in {"Underflow", "Overflow", "OutOfRange"}

\* C2: no call touches a byte outside [0, size): the n bytes at position p
\* are accessed only when p + n <= size in unbounded arithmetic.
C2_AccessWithinRegion ==
    last.op \in {"read", "peek", "read_bytes", "read_string", "read_cstring",
                 "read_array", "write", "write_bytes", "write_string",
                 "write_cstring", "write_array", "fill_bytes", "align"}
        => (0 <= last.lo /\ last.hi <= size)

\* C3: a call whose bounds check fails raises Underflow (Reader) or Overflow
\* (Writer) and leaves the position and every region byte as they were.
C3_FailedCheck ==
    \/ /\ last'.cur = "R"
       /\ last'.op \in {"read", "read_bytes", "read_string", "view_string", "skip"}
       /\ check_bounds(mem, rpos, last'.n)
    \/ /\ last'.cur = "W"
       /\ last'.op \in {"write", "write_bytes", "fill_bytes"}
       /\ ensure(mem, wpos, last'.n)
    \/ /\ last'.cur = "W" /\ last'.op = "skip"
       /\ check(mem, wpos, last'.n)

C3_FailureIsAtomic ==
    [][C3_FailedCheck =>
          /\ last'.err = (IF last'.cur = "R" THEN "Underflow" ELSE "Overflow")
          /\ mem' = mem /\ rpos' = rpos /\ wpos' = wpos]_vars

\* a write that does not fit was refused on a region already holding data
C3_Witness ==
    /\ last.cur = "W" /\ last.op = "write_bytes" /\ last.err = "Overflow"
    /\ wpos > 0 /\ wpos < size /\ mem[1] # 0

\* C4: a successful read<T> / write<T> advances the position by sizeof(T), a
\* successful read_bytes, read_string, view_string, skip, write_bytes,
\* write_string or fill_bytes of n bytes by n, and the result is <= size.
C4_AdvanceExact ==
    (/\ last.err = "none"
     /\ last.op \in {"read", "write", "read_bytes", "read_string", "view_string",
                     "skip", "write_bytes", "write_string", "fill_bytes"})
        => (PosAfter = last.pre + last.n /\ PosAfter <= size)

\* C5: in a region of n bytes an access of n bytes from position 0 succeeds
\* and exhausts the cursor; from there every read of k >= 1 bytes fails with
\* Underflow and every write of k >= 1 bytes with Overflow.
C5_ExhaustedBoundary ==
    /\ (/\ last.op \in {"read", "read_bytes", "read_string", "view_string",
                        "write", "write_bytes", "write_string", "fill_bytes"}
        /\ last.pre = 0 /\ last.n = size)
           => (last.err = "none" /\ PosAfter = size /\ exhausted(mem, PosAfter))
    /\ (/\ last.op \in {"read", "read_bytes", "read_string", "view_string",
                        "write", "write_bytes", "write_string", "fill_bytes"}
        /\ last.pre = size /\ last.n >= 1)
           => last.err = (IF last.cur = "R" THEN "Underflow" ELSE "Overflow")

\* C6: seek(pos) succeeds exactly when pos <= size and then position = pos
\* (seek(size) is allowed); otherwise it fails with OutOfRange and the
\* position is unchanged; rewind() sets the position to 0 and never fails.
C6_SeekRewind ==
    /\ last.op = "seek" =>
          IF last.n <= size
          THEN last.err = "none" /\ PosAfter = last.n
          ELSE last.err = "OutOfRange" /\ PosAfter = last.pre
    /\ last.op = "rewind" => (last.err = "none" /\ PosAfter = 0)

\* seek(size) on a non-empty region, from elsewhere: the cursor is exhausted
C6_Witness ==
    /\ last.op = "seek" /\ last.cur = "R" /\ last.n = size /\ size > 0
    /\ last.pre # size /\ last.err = "none" /\ exhausted(mem, rpos)

\* the read that mirrors the write recorded in `wrote` has just returned a
\* value from the offset the write started at
ReadBack(wop, rop) ==
    /\ wrote.op = wop /\ wrote.err = "none"
    /\ last.cur = "R" /\ last.op = rop /\ last.err = "none"
    /\ last.T = wrote.T /\ last.pre = wrote.at

\* C7: for every width (1, 2, 4, 8) and value v, write_le<T>(v) followed by
\* read_le<T>() from the same offset returns v, and likewise write_be /
\* read_be, on a host of either byte order.
C7_RoundTrip ==
    /\ ReadBack("write_le", "read_le") => last.ret = wrote.v
    /\ ReadBack("write_be", "read_be") => last.ret = wrote.v

\* a 64-bit value with eight distinct bytes came back through the big-endian
\* pair at offset 1 on a little-endian host (where both sides swap)
C7_Witness ==
    /\ ReadBack("write_be", "read_be")
    /\ little /\ wrote.at = 1 /\ wrote.T = "u64"
    /\ wrote.v = Hex(<<1, 35, 69, 103, 137, 171, 205, 239>>)

\* the region bytes at the offset of the recorded write
WrittenBytes == Fetch(mem, wrote.at, sizeof(wrote.T), 0)

\* C8: on a host of either byte order write_le stores the least significant
\* byte at the lowest offset and write_be the most significant one; read_le /
\* read_be decode those layouts; the value is byte-swapped exactly when the
\* native order differs from the requested one, and never when it has 1 byte.
C8_Layout ==
    /\ (wrote.op = "write_le" /\ wrote.err = "none") =>
          /\ WrittenBytes = wrote.v
          /\ WrittenBytes = ToMem(IF ~little /\ sizeof(wrote.T) > 1
                                  THEN ReverseBytes(wrote.v) ELSE wrote.v)
    /\ (wrote.op = "write_be" /\ wrote.err = "none") =>
          /\ WrittenBytes = ReverseBytes(wrote.v)
          /\ WrittenBytes = ToMem(IF little /\ sizeof(wrote.T) > 1
                                  THEN ReverseBytes(wrote.v) ELSE wrote.v)
    /\ (wrote.op = "write" /\ wrote.err = "none") => WrittenBytes = ToMem(wrote.v)
    /\ (last.op = "read_le" /\ last.err = "none") =>
          last.ret = Fetch(mem, last.pre, sizeof(last.T), 0)
    /\ (last.op = "read_be" /\ last.err = "none") =>
          last.ret = ReverseBytes(Fetch(mem, last.pre, sizeof(last.T), 0))

\* uint32 0x12345678 written big-endian on a big-endian host (no swap) lies
\* as 12 34 56 78 and read_le decodes those bytes as 0x78563412
C8_Witness ==
    /\ ~little
    /\ wrote.op = "write_be" /\ wrote.T = "u32" /\ wrote.at = 0
    /\ wrote.v = Hex(<<18, 52, 86, 120>>)
    /\ Fetch(mem, 0, 4, 0) = <<18, 52, 86, 120>>
    /\ last.op = "read_le" /\ last.pre = 0 /\ last.ret = Hex(<<120, 86, 52, 18>>)

\* C9: byteswap is an involution on values of 1, 2, 4 and 8 bytes (integers,
\* and floating-point values as bit patterns).
C9_Involution == (sw.n > 0 /\ sw.n % 2 = 0) => sw.out = sw.v

\* a double whose eight bytes differ was swapped twice by config.hpp's byteswap
C9_Witness ==
    /\ sw.n = 2 /\ sw.impl = "byteswap" /\ sw.T = "f64"
    /\ sw.v = Hex(<<1, 35, 69, 103, 137, 171, 205, 239>>)
    /\ sw.out = sw.v

\* C10: byteswap of a w-byte value (w in {2, 4, 8}) is the value whose byte i
\* is the input's byte w - 1 - i, signed inputs included; a 1-byte value is
\* returned unchanged; bswap16 / bswap32 / bswap64 agree with the reversal.
C10_ByteReversal ==
    sw.n = 1 => sw.out = (IF sizeof(sw.T) = 1 THEN sw.v ELSE ReverseBytes(sw.v))

\* int16 0x80FF (negative) swapped once by the integral overload gives 0xFF80
C10_Witness ==
    /\ sw.n = 1 /\ sw.impl = "byteswap_v1" /\ sw.T = "i16"
    /\ sw.v = Hex(<<128, 255>>) /\ sw.out = Hex(<<255, 128>>)

\* the read a peek corresponds to
ReadOf(op) ==
    CASE op = "peek" -> "read" [] op = "peek_le" -> "read_le" [] op = "peek_be" -> "read_be"
      [] OTHER -> op

\* the outcome of the read corresponding to the last call, made at `position`
ReadOutcome(position) ==
    CASE ReadOf(last.op) = "read" -> Reader_read(mem, position, last.T, 0)
      [] ReadOf(last.op) = "read_le" -> Reader_read_le(mem, position, last.T, 0)
      [] ReadOf(last.op) = "read_be" -> Reader_read_be(mem, position, last.T, 0)

\* a peek has just returned or thrown: the outcome is that of the read from
\* the same state and the position is the one before the call
C11_PeekState ==
    last.op \in {"peek", "peek_le", "peek_be"} =>
        /\ rpos = last.pre
        /\ last.err = ReadOutcome(last.pre).err
        /\ last.ret = ReadOutcome(last.pre).ret

\* a peek followed by the same peek or by the corresponding read
C11_PeekThenSame ==
    (/\ last.op \in {"peek", "peek_le", "peek_be"}
     /\ last'.op \in {last.op, ReadOf(last.op)} /\ last'.T = last.T)
        => (last'.ret = last.ret /\ last'.err = last.err /\ last'.pre = last.pre)

\* C11: peek / peek_le / peek_be return what the corresponding read returns
\* from the same state and leave the position at its pre-call value, whether
\* they succeed or their bounds check fails; so a second peek and a following
\* read return the same value.
C11_PeekIsRead == []C11_PeekState /\ [][C11_PeekThenSame]_vars

\* peek_be of 0x12345678 written big-endian at offset 1 of a little-endian host
C11_Witness ==
    /\ little /\ last.op = "peek_be" /\ last.T = "u32" /\ last.err = "none"
    /\ last.pre = 1 /\ rpos = 1 /\ wrote.at = 1 /\ wrote.op = "write_be"
    /\ last.ret = Hex(<<18, 52, 86, 120>>)

\* C12: subview(offset, length) succeeds exactly when offset <= size and
\* offset + length <= size, and returns a cursor of size length at position
\* 0; with the length omitted the cursor has size - offset bytes; in every
\* other case the call fails with OutOfRange.
C12_Subview ==
    last.op = "subview" =>
        LET omitted == sub.length = SIZE_MAX
            fits == /\ sub.offset <= size
                    /\ (omitted \/ sub.offset + sub.length <= size)
        IN  IF fits
            THEN /\ sub.err = "none" /\ sub.pos = 0
                 /\ sub.size = (IF omitted THEN size - sub.offset ELSE sub.length)
            ELSE sub.err = "OutOfRange"

\* a step made by subview or by a call on the cursor it returned
C13_SubviewStep == last'.op = "subview" \/ last'.cur = "SR"

\* a read on the subview at its position p has returned the parent's bytes
\* at offset + p
C13_ReadsParentBytes ==
    (last.cur = "SR" /\ last.op = "read" /\ last.err = "none") =>
        /\ sub.offset + last.pre + sizeof(last.T) <= size
        /\ last.ret = FromMem(Fetch(mem, sub.offset + last.pre, sizeof(last.T), 0))

\* C13: creating a subview and calling it never changes the parent's
\* position; the subview starts at position 0 and a read at its position p
\* returns the parent region's bytes at offset + p.
C13_SubviewIsolation ==
    /\ [](last.op = "subview" /\ sub.err = "none" => sub.pos = 0)
    /\ []C13_ReadsParentBytes
    /\ [][C13_SubviewStep => rpos' = rpos]_vars

\* the smallest multiple of a that is >= p
NextMultiple(p, a) == ((p + a - 1) \div a) * a

\* a Reader.align(a) has just succeeded
C14_Aligned ==
    (last.cur = "R" /\ last.op = "align" /\ last.err = "none") =>
        /\ rpos = NextMultiple(last.pre, last.n)
        /\ (is_aligned(last.pre, last.n) => rpos = last.pre)
        /\ is_aligned(rpos, last.n)

\* C14: for a power-of-two a, a successful Reader.align(a) sets the position
\* to the smallest multiple of a that is >= the prior position (no change when
\* already aligned), leaves the region's bytes alone, and is_aligned(a) holds
\* afterwards.
C14_ReaderAlign ==
    /\ []C14_Aligned
    /\ [][(last'.cur = "R" /\ last'.op = "align") => mem' = mem]_vars

\* align(2) from an odd position of a region holding data
C14_Witness ==
    /\ last.cur = "R" /\ last.op = "align" /\ last.err = "none"
    /\ last.n = 2 /\ last.pre = 1 /\ rpos = 2 /\ mem[2] # 0

\* C15: when the aligned position would exceed size, Reader.align(a) fails
\* with Underflow and leaves the position unchanged.
C15_ReaderAlignFails ==
    (last.cur = "R" /\ last.op = "align" /\ NextMultiple(last.pre, last.n) > size) =>
        (last.err = "Underflow" /\ rpos = last.pre)

\* a Writer.align(a, fill) step: padding filled, nothing else touched, or
\* Overflow with nothing written
C16_Step ==
    (last'.cur = "W" /\ last'.op = "align") =>
        LET next == NextMultiple(wpos, last'.n)
            fill == last'.ret[1]
        IN  IF next <= size
            THEN /\ last'.err = "none" /\ wpos' = next
                 /\ mem' = [i \in 1 .. size |->
                               IF i > wpos /\ i <= next THEN fill ELSE mem[i]]
            ELSE /\ last'.err = "Overflow" /\ wpos' = wpos /\ mem' = mem

\* C16: Writer.align(a, fill) advances the position to the next multiple of
\* a, sets every byte of [old position, new position) to fill (zero by
\* default) and leaves every other byte unchanged; when the aligned position
\* would exceed size it fails with Overflow, writes nothing and leaves the
\* position unchanged.
C16_WriterAlign == [][C16_Step]_vars

\* one padding byte 65 written by align(2, 65) from position 1
C16_Witness ==
    /\ last.cur = "W" /\ last.op = "align" /\ last.err = "none"
    /\ last.n = 2 /\ last.pre = 1 /\ last.ret = <<65>>
    /\ wpos = 2 /\ mem[2] = 65 /\ mem[1] = 0

\* C17: read_cstring finds the first zero byte, at index z in [position,
\* size), returns exactly the bytes [position, z) and sets position = z + 1;
\* when [position, size) holds no zero byte (the exhausted cursor included) it
\* fails with Underflow and the position is unchanged.
C17_ReadCString ==
    (last.cur = "R" /\ last.op = "read_cstring") =>
        IF \E z \in last.pre .. size - 1 : mem[z + 1] = 0
        THEN \E z \in last.pre .. size - 1 :
                /\ mem[z + 1] = 0
                /\ \A j \in last.pre .. z - 1 : mem[j + 1] # 0
                /\ last.err = "none"
                /\ last.ret = [i \in 1 .. z - last.pre |-> mem[last.pre + i]]
                /\ rpos = z + 1
        ELSE last.err = "Underflow" /\ rpos = last.pre

\* a non-empty string was returned from position 1 and its terminator consumed
C17_Witness ==
    /\ last.cur = "R" /\ last.op = "read_cstring" /\ last.err = "none"
    /\ last.pre = 1 /\ last.ret = <<65>> /\ rpos = 3 /\ mem[3] = 0

\* the index (from 0) of the first zero byte of s followed by a terminator
FirstZero(s) ==
    LET t == Append(s, 0)
    IN  CHOOSE k \in 0 .. Len(s) : t[k + 1] = 0 /\ \A j \in 1 .. k : t[j] # 0

\* write_cstring(s) has succeeded: the bytes of s, then a zero byte
C18_Written ==
    (wrote.op = "write_cstring" /\ wrote.err = "none") =>
        /\ Fetch(mem, wrote.at, Len(wrote.v) + 1, 0) = Append(wrote.v, 0)
        /\ wpos = wrote.at + Len(wrote.v) + 1

\* C18: write_cstring(s) writes the bytes of s and one zero byte and advances
\* by |s| + 1; when s holds a zero byte, first at index k, read_cstring from
\* the same start raises no error, returns only s[0..k), shorter than s, and
\* leaves the reader at start + k + 1, behind the writer.
C18_CStringHazard ==
    /\ C18_Written
    /\ (/\ wrote.op = "write_cstring" /\ wrote.err = "none"
        /\ last.cur = "R" /\ last.op = "read_cstring" /\ last.pre = wrote.at) =>
           LET k == FirstZero(wrote.v)
           IN  /\ last.err = "none"
               /\ last.ret = SubSeq(wrote.v, 1, k)
               /\ rpos = wrote.at + k + 1
               /\ k < Len(wrote.v) => (Len(last.ret) < Len(wrote.v) /\ rpos < wpos)

\* "A\0B" written at offset 1 is read back as "A"
C18_Witness ==
    /\ wrote.op = "write_cstring" /\ wrote.v = <<65, 0, 66>> /\ wrote.at = 1
    /\ last.cur = "R" /\ last.op = "read_cstring" /\ last.pre = 1
    /\ last.ret = <<65>> /\ rpos = 3 /\ wpos = 5

\* C19: for every byte string s that fits (empty, or holding zero bytes),
\* write_sized_string_le(s) followed by read_sized_string_le() from the same
\* offset returns s and consumes the 4 + |s| bytes written; likewise for the
\* _be pair.
C19_SizedRoundTrip ==
    \A order \in {"le", "be"} :
        (/\ wrote.op = IF order = "le" THEN "write_sized_string_le"
                       ELSE "write_sized_string_be"
         /\ wrote.err = "none"
         /\ last.cur = "R" /\ last.pre = wrote.at
         /\ last.op = IF order = "le" THEN "read_sized_string_le"
                      ELSE "read_sized_string_be") =>
            /\ last.err = "none"
            /\ last.ret = wrote.v
            /\ rpos = wrote.at + 4 + Len(wrote.v)
            /\ rpos = wpos

\* "A\0B" came back through the big-endian pair on a little-endian host
C19_Witness ==
    /\ little /\ wrote.op = "write_sized_string_be" /\ wrote.v = <<65, 0, 66>>
    /\ wrote.at = 0 /\ last.op = "read_sized_string_be" /\ last.pre = 0
    /\ last.ret = <<65, 0, 66>> /\ rpos = 7

\* the length the 4 bytes at position p announce, read in the given order
PrefixAt(p, order) ==
    LET bytes == Fetch(mem, p, 4, 0)
    IN  IF order = "le" THEN bytes[1] ELSE bytes[4]

\* C20: when read_sized_string_le / _be reads a prefix L and fewer than L
\* bytes remain after it, the call fails with Underflow and the position is
\* the one before the call: the prefix is not consumed.
C20_TruncatedIsAtomic ==
    \A order \in {"le", "be"} :
        (/\ last.cur = "R"
         /\ last.op = IF order = "le" THEN "read_sized_string_le"
                      ELSE "read_sized_string_be"
         /\ last.pre + 4 <= size
         /\ PrefixAt(last.pre, order) > size - (last.pre + 4)) =>
            (last.err = "Underflow" /\ rpos = last.pre)

\* the bytes write_cstring / write_sized_string_le / _be needs for the string
\* recorded in `wrote`
TextNeed == Len(wrote.v) + (IF wrote.op = "write_cstring" THEN 1 ELSE 4)

\* C21: when write_sized_string_le / _be(s) or write_cstring(s) does not fit
\* in the remaining room it fails with Overflow, no region byte is modified
\* and the position is unchanged: no prefix and no payload is left behind.
C21_StringWriteIsAtomic ==
    (/\ wrote.op \in {"write_cstring", "write_sized_string_le", "write_sized_string_be"}
     /\ wrote.at + TextNeed > size) =>
        /\ wrote.err = "Overflow"
        /\ wpos = wrote.at
        /\ mem = [i \in 1 .. size |-> 0]

\* C22: Writer.as_reader() returns a Reader over the same region with
\* size = writer.size and position 0 whatever the Writer's position is;
\* afterwards no Reader call changes the Writer's position, no Writer call
\* changes the Reader's position, and the Reader reads at an offset the byte
\* the Writer stored at that offset.
C22_Fresh ==
    last.op = "as_reader" =>
        /\ sub.err = "none" /\ sub.data = 0 /\ sub.size = size /\ sub.pos = 0
C22_Frame ==
    sub.cur = "as_reader" /\ sub'.cur = "as_reader" =>
        /\ last'.cur = "SR" => wpos' = wpos /\ mem' = mem
        /\ last'.cur = "W" /\ last'.op # "as_reader" => sub' = sub
C22_SameBytes ==
    (sub.cur = "as_reader" /\ last.cur = "SR" /\ last.op = "read" /\ last.err = "none") =>
        last.ret = <<mem[last.pre + 1]>>
C22_AsReader == [](C22_Fresh /\ C22_SameBytes) /\ [][C22_Frame]_vars
C22_Witness ==
    /\ sub.cur = "as_reader" /\ last.cur = "SR" /\ last.op = "read"
    /\ last.pre = 1 /\ last.ret = <<65>> /\ sub.pos = 2 /\ wpos = 3

\* C23: Stream.reader() and Stream.writer() each return a fresh cursor over
\* the full region (size = stream size, position 0); calls on a produced
\* cursor change neither Stream.position() nor the other produced cursor's
\* position; Stream.position() is the last value passed to Stream.seek, or 0
\* after construction or rewind.
C23_Fresh ==
    /\ (last.cur = "Stream" /\ last.op = "reader") =>
          /\ sub.err = "none" /\ sub.data = 0 /\ sub.size = size /\ sub.pos = 0
    /\ (last.cur = "Stream" /\ last.op = "writer") =>
          /\ last.err = "none" /\ wpos = 0
    /\ last.op = "init" => Stream_position(stream_pos) = 0
C23_Frame ==
    /\ last'.cur = "SR" => wpos' = wpos
    /\ last'.cur = "W" /\ last'.op # "as_reader" => sub' = sub
    /\ Stream_position(stream_pos') =
          IF last'.cur = "Stream" /\ last'.op = "seek" THEN last'.n
          ELSE IF last'.cur = "Stream" /\ last'.op = "rewind" THEN 0
          ELSE Stream_position(stream_pos)
C23_StreamCursors == []C23_Fresh /\ [][C23_Frame]_vars

\* the bytes one element of a list occupies: an arithmetic element in host
\* order, an EndiannessTest little-endian
ElementBytes(T, x) == IF T = "EndiannessTest" THEN x ELSE ToMem(x)
ListBytes(T, v) ==
    [k \in 1 .. Len(v) * object_size(T) |->
        ElementBytes(T, v[((k - 1) \div object_size(T)) + 1])[((k - 1) % object_size(T)) + 1]]

\* C24: write_vector writes the element count as a 4-byte little-endian
\* unsigned integer, whatever the host order, followed by each element in
\* order; read_vector on that output decodes exactly that many elements and
\* returns the original list; an empty list round-trips to an empty list
\* consuming exactly 4 bytes, without error.
C24_Layout ==
    (wrote.op = "write_vector" /\ wrote.err = "none") =>
        /\ Fetch(mem, wrote.at, 4, 0) = <<Len(wrote.v), 0, 0, 0>>
        /\ Fetch(mem, wrote.at + 4, Len(wrote.v) * object_size(wrote.T), 0)
              = ListBytes(wrote.T, wrote.v)
        /\ wpos = wrote.at + 4 + Len(wrote.v) * object_size(wrote.T)
C24_VectorRoundTrip ==
    /\ C24_Layout
    /\ (/\ wrote.op = "write_vector" /\ wrote.err = "none"
        /\ last.op = "read_vector" /\ last.T = wrote.T /\ last.pre = wrote.at) =>
          /\ last.err = "none"
          /\ last.ret = wrote.v
          /\ rpos = wpos
          /\ wrote.v = <<>> => rpos = last.pre + 4
C24_Witness ==
    /\ ~little /\ wrote.op = "write_vector" /\ wrote.T = "u32" /\ wrote.at = 1
    /\ last.op = "read_vector" /\ last.T = "u32" /\ last.pre = 1
    /\ last.ret = << <<1, 2, 3, 4>> >>

\* C25: read_vector on a region whose count prefix announces more elements
\* than the remaining bytes can supply fails with Underflow, for every count
\* value; it never returns a shorter list and never fails with another kind
\* of error.
C25_ShortInputUnderflows ==
    (/\ last.op = "read_vector" /\ last.pre + 4 <= size
     /\ Fetch(mem, last.pre, 4, 0)[1] * object_size(last.T) > size - (last.pre + 4)) =>
        last.err = "Underflow"

\* the category the dispatch order of the design gives a type: text, else
\* custom for a type with a serialize method, else raw for a trivially
\* copyable type with neither serialize nor deserialize, else rejected
C26_Category(T) ==
    LET c == Capabilities(T)
    IN  IF c.text THEN "text"
        ELSE IF c.serialize \/ c.crtp THEN "custom"
        ELSE IF c.trivial /\ ~c.serialize /\ ~c.deserialize THEN "raw"
        ELSE "rejected"
\* the same with the custom routine of the decoding direction: a static
\* deserialize, the type's own or the one inherited from Serializable<T>
C26_ReadCategory(T) ==
    LET c == Capabilities(T)
    IN  IF c.text THEN "text"
        ELSE IF c.deserialize \/ c.crtp THEN "custom"
        ELSE IF c.trivial /\ ~c.serialize /\ ~c.deserialize THEN "raw"
        ELSE "rejected"
\* the bytes a category encodes v as
C26_Encoding(cat, T, v) ==
    CASE cat = "text" -> <<Len(v), 0, 0, 0>> \o v
      [] cat = "raw" -> ToMem(v)
      [] cat = "custom" ->
            IF T = "Vehicle" THEN <<Len(v[1]), 0, 0, 0>> \o v[1] \o ToMem(v[2]) ELSE v
      [] OTHER -> <<>>
\* the value a category decodes from the bytes [p, q) of the region
C26_Decoding(cat, T, p, q) ==
    CASE cat = "text" -> Fetch(mem, p + 4, q - p - 4, 0)
      [] cat = "raw" -> FromMem(Fetch(mem, p, q - p, 0))
      [] cat = "custom" ->
            IF T = "Vehicle"
            THEN <<Fetch(mem, p + 4, q - p - 8, 0), FromMem(Fetch(mem, q - 4, 4, 0))>>
            ELSE Fetch(mem, p, q - p, 0)
      [] OTHER -> <<>>
C26_Picks(readcat(_)) ==
    /\ (wrote.op = "write_field" /\ wrote.err = "none") =>
          /\ C26_Category(wrote.T) # "rejected"
          /\ Fetch(mem, wrote.at, wpos - wrote.at, 0)
                = C26_Encoding(C26_Category(wrote.T), wrote.T, wrote.v)
    /\ last.op = "read_field" =>
          /\ readcat(last.T) # "rejected"
          /\ last.err = "none" =>
                last.ret = C26_Decoding(readcat(last.T), last.T, last.pre, rpos)

\* C26 as stated: write_field and read_field pick one codec by first match:
\* the text type -> 4-byte little-endian length-prefixed string; else a type
\* exposing a custom serialize (types derived from Serializable<T> included)
\* -> the type's own serialize / deserialize; else a trivially copyable type
\* with no custom serialize or deserialize -> raw copy of sizeof(T) bytes;
\* else the type is rejected at build time, so no call on it ever runs.
C26_DispatchAsStated == C26_Picks(C26_Category)

\* C26 (amended): the same order, the custom category decided per direction:
\* write_field takes it for a type with a serialize method, read_field for a
\* type with a static deserialize (its own or Serializable<T>'s); a trivially
\* copyable type with a custom serialize is encoded by that routine, not by
\* raw copy.
C26_Dispatch == C26_Picks(C26_ReadCategory)
C26_Witness ==
    /\ ~little /\ wrote.op = "write_field" /\ wrote.T = "EndiannessTest"
    /\ wrote.v = <<1, 2, 3, 4>> /\ wrote.err = "none"
    /\ last.op = "read_field" /\ last.T = "EndiannessTest" /\ last.pre = wrote.at
    /\ last.ret = <<1, 2, 3, 4>>

\* a Vehicle was written as (model, year) and is decoded as (year, model)
C27_Swapped ==
    /\ wrote.op = "write_field" /\ wrote.T = "Vehicle" /\ wrote.err = "none"
    /\ last.op = "read_field_swapped" /\ last.pre = wrote.at
\* the length the bytes after the first four are misread as
C27_MisreadLength == Fetch(mem, last.pre + 4, 4, 0)[1]

C28_Step ==
    /\ mem' = mem
    /\ wpos' = wpos
    /\ (last'.cur = "R" /\ last'.op # "subview") => sub' = sub
    /\ (last'.cur = "SR" \/ last'.op = "subview") => rpos' = rpos
C28_ReaderIsReadOnly == [][C28_Step]_vars
C28_Witness ==
    /\ last.cur = "SR" /\ last.op = "read" /\ last.T = "u16" /\ last.err = "none"
    /\ sub.data = 1 /\ last.ret = FromMem(<<1, 2>>) /\ rpos = 3 /\ mem = <<0, 1, 2, 3>>

\* C29: one Reader is not safe for two unsynchronised threads.  As long as no
\* two calls overlapped, every read that returned advanced the position by
\* its width, every peek and every throwing call left it where it was, and
\* the position stayed within the region with no copy from beyond it; the
\* position leaves the region only while calls overlapped, by the store of
\* a call that itself passed the bounds check or by such a peek putting back
\* the position it saved.
C29_Sequential(t) ==
    LET c == race.th[t] IN
    /\ (c.res = "ok" /\ c.op = "read") => (c.post = c.pre + 1 /\ c.post <= size)
    /\ (c.res = "ok" /\ c.op = "peek") => (c.post = c.pre /\ c.pre + 1 <= size)
    /\ c.res = "Underflow" => (c.post = c.pre /\ c.pre + 1 > size)
C29_Alone ==
    ~race.overlap =>
        /\ rpos <= size
        /\ ~race.oob
        /\ ~race.peek_moved
        /\ \A t \in Threads : C29_Sequential(t)
C29_Overrun ==
    (rpos <= size /\ rpos' > size) =>
        /\ race.overlap
        /\ \E t \in Threads :
            /\ race.th[t].pc \in {"store", "restore"}
            /\ race'.th[t].pc # race.th[t].pc
            /\ race.th[t].chk + 1 <= size
C29_UnsafeOnlyWhenShared == []C29_Alone /\ [][C29_Overrun]_vars
\* two overlapping peeks, made before any read, left the position off the
\* pre-call value; then two reads that both passed the bounds check moved
\* the position beyond size
C29_Witness ==
    /\ race.overlap
    /\ race.peek_moved
    /\ rpos > size
    /\ \A t \in Threads :
        /\ race.th[t].op = "read" /\ race.th[t].res = "ok"
        /\ race.th[t].pre + 1 <= size

\* C30: on a Reader, skip(n), read_bytes(n), read_string(n) and
\* view_string(n) fail with Underflow for every n > remaining(), also when
\* position + n wraps around std::size_t; no call with n > 0 succeeds and
\* leaves the position lower than before.
C30_LargeCountsUnderflow ==
    (last.cur = "R" /\ last.op \in {"skip", "read_bytes", "read_string", "view_string"}) =>
        /\ last.n > size - last.pre => last.err = "Underflow"
        /\ (last.n > 0 /\ last.err = "none") => rpos >= last.pre

\* C31: subview(offset, length) fails with OutOfRange for every passed
\* length with offset + length > size in unbounded arithmetic, also when the
\* sum wraps around std::size_t and when length is the maximum size value;
\* every returned subview lies within its parent.
C31_SubviewWithinParent ==
    last.op = "subview" =>
        /\ sub.offset + sub.length > size => sub.err = "OutOfRange"
        /\ sub.err = "none" => sub.data + sub.size <= size

\* C32: write_array_le/_be and read_array_le/_be check the byte size of the
\* whole array before touching memory: an array that does not fit fails
\* with Overflow / Underflow, no element transferred (the region still as it
\* was, nothing stored in the destination) and the position unchanged, on
\* hosts of either byte order.
C32_ArrayChecksFirst ==
    /\ (/\ last.cur = "W" /\ last.op \in {"write_array_le", "write_array_be"}
        /\ last.n > size - last.pre) =>
            /\ last.err = "Overflow"
            /\ wpos = last.pre
            /\ mem = [i \in 1 .. size |-> 0]
    /\ (/\ last.cur = "R" /\ last.op \in ArrayReads
        /\ last.n > size - last.pre) =>
            /\ last.err = "Underflow"
            /\ rpos = last.pre
            /\ last.ret = <<>>

\* C33: when enough bytes remain, write_array_le/_be leave the region and
\* the position as write_le/_be called once per element in order would, and
\* read_array_le/_be return the elements and leave the position as
\* read_le/_be called once per element in order would, on the bulk-copy path
\* and on the per-element path alike; write_array_be followed by
\* read_array_be of as many elements at the same offset returns the array.
C33_Written ==
    (wrote.op \in {"write_array_le", "write_array_be"}) =>
        LET w == sizeof(wrote.T)
            n == Len(wrote.v)
            zero == [i \in 1 .. size |-> 0]
            each(k) == IF wrote.op = "write_array_le"
                       THEN Writer_write_le(zero, wrote.at + (k - 1) * w, wrote.T, wrote.v[k])
                       ELSE Writer_write_be(zero, wrote.at + (k - 1) * w, wrote.T, wrote.v[k])
        IN  n * w <= size - wrote.at =>
              /\ wrote.err = "none"
              /\ wpos = wrote.at + n * w
              /\ \A k \in 1 .. n :
                    /\ each(k).err = "none"
                    /\ each(k).pos = wrote.at + k * w
                    /\ Fetch(mem, wrote.at + (k - 1) * w, w, 0)
                          = Fetch(each(k).mem, wrote.at + (k - 1) * w, w, 0)
              /\ \A i \in 1 .. size :
                    (i <= wrote.at \/ i > wrote.at + n * w) => mem[i] = 0
C33_Read ==
    (last.cur = "R" /\ last.op \in ArrayReads /\ last.n <= size - last.pre) =>
        LET w == sizeof(last.T)
            count == last.n \div w
            each(k) == IF last.op = "read_array_le"
                       THEN Reader_read_le(mem, last.pre + (k - 1) * w, last.T, 0)
                       ELSE Reader_read_be(mem, last.pre + (k - 1) * w, last.T, 0)
        IN  /\ last.err = "none"
            /\ rpos = last.pre + last.n
            /\ Len(last.ret) = count
            /\ \A k \in 1 .. count :
                  /\ each(k).pos = last.pre + k * w
                  /\ last.ret[k] = each(k).ret
C33_RoundTrip ==
    (/\ wrote.op = "write_array_be" /\ wrote.err = "none"
     /\ last.cur = "R" /\ last.op = "read_array_be"
     /\ last.pre = wrote.at /\ last.n = Len(wrote.v) * sizeof(wrote.T)) =>
        last.ret = wrote.v
C33_ArrayAsPerElement == C33_Written /\ C33_Read /\ C33_RoundTrip
\* a little-endian host, where write_array_be and read_array_be of 2-byte
\* elements convert each element: two elements written at offset 1 and read
\* back
C33_Witness ==
    /\ is_little_endian
    /\ wrote.op = "write_array_be" /\ wrote.T = "u16" /\ wrote.at = 1
    /\ wrote.v = <<<<17, 18>>, <<33, 34>>>>
    /\ mem = <<0, 18, 17, 34, 33>>
    /\ last.cur = "R" /\ last.op = "read_array_be" /\ last.pre = 1
    /\ last.ret = wrote.v /\ rpos = 5 /\ wpos = 5

\* C34: values written with write_field from writer position 0 and decoded
\* with read_field<T> from reader position 0 come back equal, and after each
\* value the reader is where the writer was after writing it: decoding
\* consumes exactly the bytes encoding produced.
C34_FieldRoundTrip ==
    (wrote.op = "write_field" /\ wrote.err = "none" /\ last.cur = "R") =>
        /\ last.err = "none"
        /\ last.ret = wrote.v[last.n]
        /\ rpos = wrote.at[last.n]
        /\ last.n = Len(wrote.v) => rpos = wpos
\* a GameState with a name and one inventory id, then a byte, both decoded
C34_Witness ==
    /\ wrote.T = <<"GameState", "u8">> /\ wrote.err = "none"
    /\ wrote.v[1][2] = <<80>> /\ wrote.v[1][4] = <<<<233, 3, 0, 0>>>>
    /\ last.cur = "R" /\ last.n = 2 /\ last.ret = <<1>>
    /\ wrote.at = <<25, 26>> /\ rpos = 26 /\ wpos = 26

\* C35: a successful write<T>, write_le, write_be, write_bytes, write_string
\* or fill_bytes of n bytes at position p changes only the region bytes
\* [p, p + n): every byte outside that range keeps its value.
C35_Step ==
    (/\ last'.cur = "W" /\ last'.err = "none"
     /\ last'.op \in {"write", "write_le", "write_be", "write_bytes",
                      "write_string", "fill_bytes"}) =>
        /\ last'.pre = wpos
        /\ Len(mem') = Len(mem)
        /\ \A i \in 1 .. size :
              (i <= wpos \/ i > wpos + last'.n) => mem'[i] = mem[i]
C35_WriteFrame == [][C35_Step]_vars
\* write_be of a 2-byte value at position 1 of the 4-byte region: bytes 0
\* and 3 still hold what they held
C35_Witness ==
    /\ last.cur = "W" /\ last.op = "write_be" /\ last.T = "u16"
    /\ last.err = "none" /\ last.pre = 1 /\ wpos = 3
    /\ mem = <<1, 0, 65, 4>>

\* C36: after Stream.seek(p) for any p, also p beyond the region size,
\* Stream.reader() and Stream.writer() return a cursor with position <= size,
\* raise no error and do not abort.
C36_CursorAfterSeek ==
    /\ (last.cur = "Stream" /\ last.op = "reader") =>
          /\ last.err = "none" /\ sub.err = "none" /\ sub.pos <= sub.size
    /\ (last.cur = "Stream" /\ last.op = "writer") =>
          /\ last.err = "none" /\ wpos <= size

\* C37: for every combination of capabilities (text type, serialize method,
\* static deserialize, derived from Serializable<T>, trivially copyable),
\* when write_field and read_field both accept the type they pick the same
\* category of codec: never the custom routine on one side and the raw copy
\* on the other.
C37_CodecCategory(codec) ==
    CASE codec \in {"write_sized_string_le", "read_sized_string_le"} -> "text"
      [] codec \in {"serialize", "deserialize"} -> "custom"
      [] codec \in {"write_native", "read_native"} -> "raw"
      [] OTHER -> "none"
C37_SameCategory ==
    (/\ wrote.op \notin {"-", "static_assert"}
     /\ last.op \notin {"init", "static_assert"}) =>
        C37_CodecCategory(wrote.op) = C37_CodecCategory(last.op)
\* a trivially copyable type with both custom routines: custom on both sides
C37_Witness ==
    /\ last.T \in CapabilitySets
    /\ last.T.trivial /\ last.T.serialize /\ last.T.deserialize /\ ~last.T.text
    /\ wrote.op = "serialize" /\ last.op = "deserialize"

\* C38: byteswap is defined only for values of 1, 2, 4 or 8 bytes: for a
\* value of any other width byteswap and read_be are rejected at build time,
\* so none is ever applied to such a value and returns it.
C38_OtherWidthsRejected ==
    /\ sizeof(sw.T) \notin {1, 2, 4, 8} => sw.n = 0
    /\ (last.cur = "R" /\ last.op = "read_be") => sizeof(last.T) \in {1, 2, 4, 8}

\* C39: write_array of a std::array<T, N> leaves in the region the encodings
\* write_field gives the N elements, one after the other in index order from
\* the position it started at, and nothing else (no count in front); its
\* position advances by the sum of their sizes, N * sizeof(T) for an
\* arithmetic T. read_array<T, N> from the same offset returns the array
\* and leaves the reader where the writer is.
C39_end(k) ==
    LET RECURSIVE after(_)
        after(j) ==
            IF j = 0 THEN wrote.at
            ELSE write_field([i \in 1 .. size |-> 0], after(j - 1), wrote.T, wrote.v[j]).pos
    IN  after(k)
C39_Written ==
    (wrote.op = "write_array" /\ wrote.err = "none") =>
        LET n == Len(wrote.v)
            zero == [i \in 1 .. size |-> 0]
            each(k) == write_field(zero, C39_end(k - 1), wrote.T, wrote.v[k])
        IN  /\ wpos = C39_end(n)
            /\ wrote.T \in ArithmeticTypes => wpos = wrote.at + n * sizeof(wrote.T)
            /\ \A k \in 1 .. n :
                  /\ each(k).err = "none"
                  /\ C39_end(k) > C39_end(k - 1)
                  /\ \A i \in C39_end(k - 1) + 1 .. C39_end(k) : mem[i] = each(k).mem[i]
            /\ \A i \in 1 .. size : (i <= wrote.at \/ i > wpos) => mem[i] = 0
C39_RoundTrip ==
    (/\ wrote.op = "write_array" /\ wrote.err = "none"
     /\ last.cur = "R" /\ last.op = "read_array"
     /\ last.pre = wrote.at /\ last.n = Len(wrote.v)) =>
        /\ last.err = "none"
        /\ last.ret = wrote.v
        /\ rpos = wpos
C39_ArrayRoundTrip == C39_Written /\ C39_RoundTrip
\* two floats, 1.0f and 2.0f, written at offset 1 of a little-endian host
\* and read back: eight bytes, no count
C39_Witness ==
    /\ is_little_endian
    /\ wrote.op = "write_array" /\ wrote.T = "f32" /\ wrote.at = 1
    /\ wrote.v = <<<<0, 0, 128, 63>>, <<0, 0, 0, 64>>>>
    /\ mem = <<0, 0, 0, 128, 63, 0, 0, 0, 64, 0>>
    /\ last.cur = "R" /\ last.op = "read_array" /\ last.pre = 1 /\ last.n = 2
    /\ last.ret = wrote.v /\ rpos = 9 /\ wpos = 9

====
